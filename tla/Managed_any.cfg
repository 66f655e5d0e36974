SPECIFICATION Spec
CONSTANTS
  Ops = {"install", "save", "resync", "reset", "launch", "restore", "purge", "uninstall"}
  Keys <- MCKeys
  Other = Other
  Names = {Server, OldServer}
  Retired = {OldServer}
  CodeFiles <- MCCodeFiles
  DeskFiles <- MCDeskFiles
  Officials <- MCOfficials
  Libraries <- MCLibraries
  Own = Own
  None = None
  Absent = Absent
  Broken = Broken
  Url = Url
  AutoMode = AutoMode
  Server = Server
  OldServer = OldServer
  u1 = u1
  u2 = u2
INVARIANTS UsersValuesKept LibraryKept RestoreComplete InForce
