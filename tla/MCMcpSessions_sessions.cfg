\* Two sessions, two tenants, a registry with room for one of them, a capability
\* behind a setting and a published server.
CONSTANTS
  Tenant = {t1, t2}
  Server = {m1, m2}
  Object = {o1, o2}
  Preparer = {"dataforge", "published"}
  Setting = {"dataforge"}
  Published = "published"
  Order <- SettingThenApp
  PublishedApp = {a1}
  None = None
  MaxTenants = 1
  IdleTtl = 0
  Cooldown = 1
  MaxTime = 1
SYMMETRY Symmetry
SPECIFICATION Spec
CHECK_DEADLOCK FALSE
INVARIANTS TypeOK OwnTools ToolsInStep BooksAgree CloseEnds StoppedClean
PROPERTIES UntrackedOnlyWhenFull
