SPECIFICATION FairSpec
CONSTANTS
  chat = chat
  other = other
  q1 = q1
  Keys = {chat, other}
  Requests = {c1, c2, q1}
  KeyOf <- MCKeyOf
  Droppable = {c2}
  Max = 1
  None = None
INVARIANTS
  TableAgrees

  
  
CHECK_DEADLOCK FALSE
