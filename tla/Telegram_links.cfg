SPECIFICATION Spec
CHECK_DEADLOCK FALSE
SYMMETRY Symmetry
CONSTANTS
  Users = {ann, ben}
  Chats = {phone}
  Codes = {c1, c2}
  Updates = {m1, m2, m3}
  Requests = {r1, r2}
  MaxLinks = 2
  MaxDeaths = 1
  None = None
INVARIANTS OneAccountPerChat OneTurnAsTheLinkedUser RevokedBeforeIsRefused ThreadOfItsUser
