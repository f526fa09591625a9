SPECIFICATION Spec
CONSTANTS
  top = top
  sub = sub
  file = file
  link = link
  torn = torn
  Nodes = {top, sub, file, link, torn}
  Root = top
  Parent <- MCParent
  Name <- MCName
  INodeOf <- MCINodeOf
  Dirs = {top, sub}
  Bad = {5}
  Users = {u1, u2}
  Shell = shell
  Slots = {3, 4}
  Files = {F1, F2, F3}
  Requests <- MCRequests
  MaxRefs = 5
  MaxStarts = 1
  Polite = TRUE
SYMMETRY Symmetry
INVARIANTS CountsAreExact NothingFreedIsUsed FilesHaveOneOwner NoChangeIsLost CallsCanReturn
CHECK_DEADLOCK FALSE
