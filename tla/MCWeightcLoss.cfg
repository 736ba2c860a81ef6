SPECIFICATION FairSpec
CONSTANTS
  chat = chat
  other = other
  q1 = q1
  Keys = {chat}
  Requests = {c1, c2, c3}
  KeyOf <- MCKeyOf
  Droppable = {}
  Max = 2
  None = None
PROPERTY NoSilentLoss
CHECK_DEADLOCK FALSE
