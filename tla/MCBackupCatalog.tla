-------------------------- MODULE MCBackupCatalog --------------------------
\* Model checking of BackupCatalog under the assumptions of its proofs.
EXTENDS CatalogRetentionProofs
=============================================================================
