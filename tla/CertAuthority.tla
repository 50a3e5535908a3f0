--------------------------- MODULE CertAuthority ---------------------------
(***************************************************************************)
(* helpers/certauthority/certauthority.go: goroutines that create CAs      *)
(* (NewCertAuthority) and certificates (GenerateSelfSignedCertAndKey).     *)
(* The pkix package "is not thread-safe for certain PKI operations", so    *)
(* the package serialises them with two global mutexes, caLock and         *)
(* csrLock, unlocked by hand on every path, the error paths included.      *)
(* Keys, certificates and file contents are left out: what is modelled is  *)
(* which operations can be in progress together and who holds the locks.   *)
(***************************************************************************)
EXTENDS FiniteSets

CONSTANTS Threads,   \* the goroutines
          None       \* "nobody", for a free lock

\* A lock that nobody holds has no goroutine as its holder.
ASSUME NoneAssumption == None \notin Threads

VARIABLES pc,        \* where each goroutine is
          caLock,    \* holder of caLock, or None
          csrLock,   \* holder of csrLock, or None
          authority  \* has some NewCertAuthority succeeded?

vars == <<pc, caLock, csrLock, authority>>

\* GenerateSelfSignedCertAndKey ("leaf...") and generateCAAndKey ("ca...").
LeafLabels == {"leafKey", "leafWantCsr", "leafCsr", "leafRead", "leafWantCa",
               "leafSign", "leafWrite"}
CALabels == {"caKey", "caWantCa", "caCreate", "caCrtKey", "caCsr", "caSign", "caWrite"}
Labels == {"idle"} \cup LeafLabels \cup CALabels

Init ==
  /\ pc = [t \in Threads |-> "idle"]
  /\ caLock = None
  /\ csrLock = None
  /\ authority = FALSE

Goto(t, from, to) == pc[t] = from /\ pc' = [pc EXCEPT ![t] = to]

\* handleError: the call returns with an error.
HandleError(t, from) == Goto(t, from, "idle")

-----------------------------------------------------------------------------
\* GenerateSelfSignedCertAndKey, on an authority some NewCertAuthority returned

CallGenerate(t) ==
  /\ authority
  /\ Goto(t, "idle", "leafKey")
  /\ UNCHANGED <<caLock, csrLock, authority>>

\* CreateRSAKey and ExportPrivate
CreateKey(t) ==
  /\ Goto(t, "leafKey", "leafWantCsr") \/ HandleError(t, "leafKey")
  /\ UNCHANGED <<caLock, csrLock, authority>>

LockCSR(t) ==
  /\ csrLock = None
  /\ Goto(t, "leafWantCsr", "leafCsr")
  /\ csrLock' = t
  /\ UNCHANGED <<caLock, authority>>

\* Mutant: the error path returns without unlocking.
CreateCSRKeepsLock(t) ==
  /\ \/ Goto(t, "leafCsr", "leafRead") /\ csrLock' = None
     \/ HandleError(t, "leafCsr") /\ UNCHANGED csrLock
  /\ UNCHANGED <<caLock, authority>>

\* CreateCertificateSigningRequest ends; csrLock is unlocked either way
CreateCSR(t) ==
  /\ Goto(t, "leafCsr", "leafRead") \/ HandleError(t, "leafCsr")
  /\ csrLock' = None
  /\ UNCHANGED <<caLock, authority>>

\* the CA's certificate and key are read and parsed
ReadCA(t) ==
  /\ Goto(t, "leafRead", "leafWantCa") \/ HandleError(t, "leafRead")
  /\ UNCHANGED <<caLock, csrLock, authority>>

\* Mutant: signing does not wait for caLock.
LockCASkipped(t) ==
  /\ Goto(t, "leafWantCa", "leafSign")
  /\ caLock' = t
  /\ UNCHANGED <<csrLock, authority>>

LockCA(t) ==
  /\ caLock = None
  /\ Goto(t, "leafWantCa", "leafSign")
  /\ caLock' = t
  /\ UNCHANGED <<csrLock, authority>>

\* CreateIntermediateCertificateAuthorityWithOptions or CreateCertificateHost
\* ends; caLock is unlocked either way
Sign(t) ==
  /\ Goto(t, "leafSign", "leafWrite") \/ HandleError(t, "leafSign")
  /\ caLock' = None
  /\ UNCHANGED <<csrLock, authority>>

\* the certificate is exported and both temporary files are written
WriteFiles(t) ==
  /\ Goto(t, "leafWrite", "idle")
  /\ UNCHANGED <<caLock, csrLock, authority>>

-----------------------------------------------------------------------------
\* NewCertAuthority and generateCAAndKey: everything up to the intermediate
\* certificate happens under caLock, the signing request included

CallNew(t) ==
  /\ Goto(t, "idle", "caKey")
  /\ UNCHANGED <<caLock, csrLock, authority>>

CACreateKey(t) ==
  /\ Goto(t, "caKey", "caWantCa") \/ HandleError(t, "caKey")
  /\ UNCHANGED <<caLock, csrLock, authority>>

CALockCA(t) ==
  /\ caLock = None
  /\ Goto(t, "caWantCa", "caCreate")
  /\ caLock' = t
  /\ UNCHANGED <<csrLock, authority>>

\* Mutant: the error paths return without unlocking.
CAStepKeepsLock(t, from, to) ==
  /\ Goto(t, from, to) \/ HandleError(t, from)
  /\ UNCHANGED <<caLock, csrLock, authority>>

\* CreateCertificateAuthority, CreateRSAKey and CreateCertificateSigningRequest
\* each unlock caLock on an error and keep it otherwise
CAStepUnderLock(t, from, to) ==
  /\ \/ /\ Goto(t, from, to)
        /\ UNCHANGED caLock
     \/ /\ HandleError(t, from)
        /\ caLock' = None
  /\ UNCHANGED <<csrLock, authority>>

CACreate(t) == CAStepUnderLock(t, "caCreate", "caCrtKey")
CACreateCrtKey(t) == CAStepUnderLock(t, "caCrtKey", "caCsr")
CACreateCSR(t) == CAStepUnderLock(t, "caCsr", "caSign")

CASign(t) ==
  /\ Goto(t, "caSign", "caWrite") \/ HandleError(t, "caSign")
  /\ caLock' = None
  /\ UNCHANGED <<csrLock, authority>>

\* the files are written and NewCertAuthority returns an authority, or an error
CAWriteFiles(t) ==
  /\ Goto(t, "caWrite", "idle")
  /\ authority' \in {authority, TRUE}
  /\ UNCHANGED <<caLock, csrLock>>

-----------------------------------------------------------------------------
Acquire(t) == LockCSR(t) \/ LockCA(t) \/ CALockCA(t)

Proceed(t) ==
  \/ CreateKey(t) \/ CreateCSR(t) \/ ReadCA(t) \/ Sign(t) \/ WriteFiles(t)
  \/ CACreateKey(t) \/ CACreate(t) \/ CACreateCrtKey(t) \/ CACreateCSR(t)
  \/ CASign(t) \/ CAWriteFiles(t)

Next == \E t \in Threads : CallGenerate(t) \/ CallNew(t) \/ Acquire(t) \/ Proceed(t)

\* Running goroutines are scheduled, and sync.Mutex hands a contended lock to
\* the goroutine that has waited longest (its starvation mode), so a waiter is
\* not passed over for ever.  Nobody has to call.
Fairness == \A t \in Threads : WF_vars(Proceed(t)) /\ SF_vars(Acquire(t))

Spec == Init /\ [][Next]_vars
FairSpec == Spec /\ Fairness

-----------------------------------------------------------------------------
\* goroutines inside the section that caLock, or csrLock, protects
HoldsCA(t) == pc[t] \in {"leafSign", "caCreate", "caCrtKey", "caCsr", "caSign"}
HoldsCSR(t) == pc[t] = "leafCsr"

\* goroutines inside a pkix call that creates a certificate
Signing(t) == pc[t] \in {"leafSign", "caCreate", "caSign"}

TypeOK ==
  /\ pc \in [Threads -> Labels]
  /\ caLock \in Threads \cup {None}
  /\ csrLock \in Threads \cup {None}
  /\ authority \in BOOLEAN

\* caLock's purpose: no two goroutines create certificates at the same time,
\* whichever of the two functions they are in.
SigningExclusive ==
  \A t, u \in Threads : Signing(t) /\ Signing(u) => t = u

\* A lock is held exactly by the goroutine inside its section: none leaks
\* through one of the hand-written error paths, none is released twice.
LocksMatchSections ==
  \A t \in Threads :
    /\ (caLock = t) <=> HoldsCA(t)
    /\ (csrLock = t) <=> HoldsCSR(t)

\* Every call returns, whichever steps of it and of the others fail.
CallsReturn == \A t \in Threads : pc[t] # "idle" ~> pc[t] = "idle"

\* certauthority.go: pkix "is not thread-safe for certain PKI operations ...
\* we perform our own locking"; csrLock exists so that no two goroutines
\* create signing requests at the same time.
CSRExclusive ==
  \A t, u \in Threads :
    pc[t] \in {"leafCsr", "caCsr"} /\ pc[u] \in {"leafCsr", "caCsr"} => t = u

\* The inductive invariant.
IInv == TypeOK /\ LocksMatchSections
=============================================================================
