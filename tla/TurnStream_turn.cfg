\* Two tool calls side by side, a streamed chunk and a reply, one initialize.
SPECIFICATION FairSpec
CONSTANTS
  c1 = c1
  c2 = c2
  None = None
  Call = {c1, c2}
  Tool <- ReadTool
  Offers <- Reads
  MaxText = 1
  Script <- Replies
INVARIANTS
  TypeOK
  ToolCallsBracketed
  OnlyAnnouncedTools
  ReplyOnce
  PreparedRepliesInOrder
  UpdatesStop
PROPERTY ToolCallsEnd
