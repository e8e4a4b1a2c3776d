SPECIFICATION Spec
CONSTANTS
  v1 = v1
  v2 = v2
  v3 = v3
  Viewers <- OneViewer
  Texts = {a, b}
  NoText = NoText
  Buffer = 1
  MaxCopies = 4
INVARIANT LastTextIsSent
INVARIANT QuietClipboardsAgree
PROPERTY Settles
CHECK_DEADLOCK FALSE
