SPECIFICATION MCSpec
CONSTANTS
  None = None
  w1 = w1
  w2 = w2
  a = a
  b = b
  EditorChat = fx
  Chats = {a, b}
  ChatNames = {"n1"}
  EmptyBody = "empty"
  SessionData <- MCSessionData
  GraphData <- MCGraphData
  FolderOrder <- MCFolderOrder
  FolderOf <- MCFolderOf
  Home <- MCHome
  MaxEvents = 2
  MaxMessages = 1
INVARIANTS
  LiveTypeOK
  PanelCurrent
  PageShowsPayload
CHECK_DEADLOCK FALSE
