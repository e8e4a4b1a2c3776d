SPECIFICATION Spec
CONSTANTS
  v1 = v1
  v2 = v2
  v3 = v3
  Viewers <- ThreeViewers
  Texts = {a, b}
  NoText = NoText
  Buffer = 1
  MaxCopies = 4
CONSTRAINT CopiedAlone
INVARIANT QuietClipboardsAgree
CHECK_DEADLOCK FALSE
