\* Two requests on one skill, which overlap and fail as they may.
SPECIFICATION Spec
CONSTANTS
  t1 = t1  t2 = t2  agent = agent  user = user  o1 = o1  o2 = o2
  Text = {t1, t2}
  Author = {agent}
  Owner = user
  Source <- Sources
  Modes <- Modes2
  Requests = {"write", "bridge", "approve", "status", "delete"}
  Op = {o1, o2}
SYMMETRY Symmetry
INVARIANTS FilesAgree OnlyAuthorityApproves
PROPERTIES ApprovedIsSigned AuthorLocked
