SPECIFICATION FairSpec
CONSTANTS
  Clients = {"ann", "bob", "bob2"}
  Names = {"ann", "bob"}
  NameOf <- MCNameOf
  Files = {"notes", "plan", "."}
  FilesOf <- MCFilesOf
  DotFiles = {"."}
  SockBuf = 1
  MaxLs <- MCMaxLs
  MayCrash = {"bob"}
INVARIANTS TypeOK ListedIsRegistered OthersUntouched
PROPERTIES ImplementsIndex LeaversForgotten LsReturns
CHECK_DEADLOCK FALSE
