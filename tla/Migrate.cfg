SPECIFICATION MigrateSpec
CONSTANTS
  Migrator = {m1, m2}
  Key = {k1}
  None = None
  Blank = Blank
  MaxKills = 1
INVARIANTS
  MigrateTypeOK
  ServesCurrentSchema
  KeyAdmittedOnce
PROPERTIES
  UpgradeResumes
