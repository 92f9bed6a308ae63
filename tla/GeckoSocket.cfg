CONSTANTS
  ana = ana bob = bob cy = cy
  a1 = a1 b1 = b1
  f1 = f1 f2 = f2
  Users = {ana, bob, cy}
  Clients = {a1, b1}
  Owner <- MCOwner
  MaxMessages <- MCMessages
  Friends = {f1, f2}
  FriendsOf <- MCFriends
  Contexts <- MCContexts
  Tasks = {t1, t2}
  Nobody = Nobody NoFriend = NoFriend Gone = Gone Idle = Idle NoTask = NoTask
SPECIFICATION Spec
SYMMETRY Symm
CHECK_DEADLOCK FALSE
INVARIANTS STypeOK MembersAreBound BoundAreMembers OffScreenSeesNobody
