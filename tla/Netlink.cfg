CONSTANTS
  m1 = m1 m2 = m2 t1 = t1 t2 = t2 a1 = a1 a2 = a2
  Key <- MCKey
  Mac <- MCMac
  None = None
  MaxEntry = 4
  NeighRing = 2
  RibRing = 3
  Tap <- MCTap
  NameLen <- MCNameLen
  Slot <- MCSlot
  Addr <- MCAddr
  Zero = Zero
  NoName = NoName
  MaxIdx = 2
  InFlight = 2
  Site <- MCSite
SPECIFICATION Spec
CHECK_DEADLOCK FALSE
INVARIANTS MasterSorted ReplicaFollows KernelResolved AddressesFollow
PROPERTIES StableResolved StableAddress
