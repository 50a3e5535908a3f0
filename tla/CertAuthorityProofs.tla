------------------------ MODULE CertAuthorityProofs ------------------------
(***************************************************************************)
(* The locking of CertAuthority for any number of goroutines.              *)
(***************************************************************************)
EXTENDS CertAuthority, TLAPS

\* Each lock is held exactly by the goroutine inside its section.
THEOREM LocksSound == Spec => []LocksMatchSections
  <1>1. Init => IInv
    BY NoneAssumption DEF Init, IInv, TypeOK, LocksMatchSections, HoldsCA, HoldsCSR, Labels
  <1>2. IInv /\ [Next]_vars => IInv'
    <2> SUFFICES ASSUME IInv, [Next]_vars PROVE IInv'
      OBVIOUS
    <2> USE NoneAssumption DEF IInv, TypeOK, LocksMatchSections, HoldsCA, HoldsCSR,
                               Labels, LeafLabels, CALabels, Goto, HandleError
    <2>1. ASSUME NEW t \in Threads, CallGenerate(t) \/ CallNew(t)
          PROVE  IInv'
      BY <2>1 DEF CallGenerate, CallNew
    <2>2. ASSUME NEW t \in Threads, Acquire(t)
          PROVE  IInv'
      <3>1. CASE LockCSR(t)
        BY <3>1 DEF LockCSR
      <3>2. CASE LockCA(t)
        BY <3>2 DEF LockCA
      <3>3. CASE CALockCA(t)
        BY <3>3 DEF CALockCA
      <3> QED BY <2>2, <3>1, <3>2, <3>3 DEF Acquire
    <2>3. ASSUME NEW t \in Threads, Proceed(t)
          PROVE  IInv'
      <3>1. CASE CreateKey(t)
        BY <3>1 DEF CreateKey
      <3>2. CASE CreateCSR(t)
        BY <3>2 DEF CreateCSR
      <3>3. CASE ReadCA(t)
        BY <3>3 DEF ReadCA
      <3>4. CASE Sign(t)
        BY <3>4 DEF Sign
      <3>5. CASE WriteFiles(t)
        BY <3>5 DEF WriteFiles
      <3>6. CASE CACreateKey(t)
        BY <3>6 DEF CACreateKey
      <3>7. CASE CACreate(t)
        BY <3>7 DEF CACreate, CAStepUnderLock
      <3>8. CASE CACreateCrtKey(t)
        BY <3>8 DEF CACreateCrtKey, CAStepUnderLock
      <3>9. CASE CACreateCSR(t)
        BY <3>9 DEF CACreateCSR, CAStepUnderLock
      <3>10. CASE CASign(t)
        BY <3>10 DEF CASign
      <3>11. CASE CAWriteFiles(t)
        BY <3>11 DEF CAWriteFiles
      <3> QED BY <2>3, <3>1, <3>2, <3>3, <3>4, <3>5, <3>6, <3>7, <3>8, <3>9, <3>10, <3>11
              DEF Proceed
    <2>4. CASE UNCHANGED vars
      BY <2>4 DEF vars
    <2> QED BY <2>1, <2>2, <2>3, <2>4 DEF Next
  <1>3. IInv => LocksMatchSections
    BY DEF IInv
  <1> QED BY <1>1, <1>2, <1>3, PTL DEF Spec

\* No two goroutines create certificates at the same time.
THEOREM SigningSafe == Spec => []SigningExclusive
  <1>1. LocksMatchSections => SigningExclusive
    BY DEF LocksMatchSections, SigningExclusive, Signing, HoldsCA
  <1> QED BY <1>1, LocksSound, PTL
=============================================================================
