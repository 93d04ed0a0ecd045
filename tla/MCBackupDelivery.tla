-------------------------- MODULE MCBackupDelivery --------------------------
EXTENDS BackupDelivery, TLC

AnyOrder == Permutations(CopyIds)
=============================================================================
