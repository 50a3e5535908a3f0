------------------------- MODULE AnnouncementProofs -------------------------
(***************************************************************************)
(* The announcement server for any number of containers, specs and ports:  *)
(* its lock, what its lists contain, and that it implements the board.     *)
(***************************************************************************)
EXTENDS AnnouncementServer, SequenceTheorems, TLAPS

Open == phase \in {"body", "stopping"}

\* Requests go to the current server, which is there while one is under way;
\* the spec's own are over when it calls Stop.
RequestsCurrent ==
  /\ listening <=> phase = "body"
  /\ Open => server > 0
  /\ \A h \in Handlers : stage[h] # "none" => conn[h] = server /\ Open
  /\ \A h \in Handlers : stage[h] = "sent" => phase = "body"
  /\ stage[Test] # "none" => phase = "body"

\* The lock of a server and the sections of its handlers.
LocksHeld ==
  /\ \A c \in Containers : stage[c] \notin ReadSection
  /\ stage[Test] \notin WriteSection \cup {"waiting"}
  /\ \A c \in Containers :
       stage[c] \in WriteSection \cup {"waiting"} => writer[conn[c]] = c
  /\ \A c \in Containers : stage[c] \in WriteSection => readers[conn[c]] = {}
  /\ stage[Test] \in ReadSection => Test \in readers[conn[Test]]

\* What is on the lists: nothing that was stored is ever overwritten.
ListsComplete ==
  /\ \A c \in Containers : stage[c] = "loaded" => slice[c] = registered[conn[c]]
  /\ \A c \in Containers :
       stage[c] \in {"stored", "answering"} => Listed(registered[conn[c]], c)
  /\ \A c \in acked :
       stage[c] = "none" /\ conn[c] \in Servers /\ Listed(registered[conn[c]], c)
  /\ stage[Test] # "none" => \A c \in known : Listed(registered[conn[Test]], c)
  /\ stage[Test] \in {"encoded", "answering"} => \A c \in known : Listed(answer, c)

\* Where containers come from: what is left of earlier specs leaked, or belongs
\* to another process; what reaches this server by its port alone had the port
\* before, because no other process is given a port that is in use.
OriginsKnown ==
  /\ \A c \in Containers :
       life[c] = "running" =>
         \/ c \in leaked \/ url[c].server = 0
         \/ url[c].server = server /\ phase # "idle"
  /\ \A c \in Containers : life[c] = "absent" => stage[c] = "none"
  /\ \A c \in Containers : stage[c] # "none" =>
       \/ url[c].server = server
       \/ c \in inherited[server] /\ (c \in leaked \/ url[c].server = 0)
  /\ \A s \in Servers : \A c \in Containers :
       Listed(registered[s], c) => life[c] # "absent" /\ s <= server
  /\ phase = "body" => serverAddr \notin elsewhere
  /\ \A c \in Containers :
       phase = "body" /\ life[c] = "running" /\ url[c].addr = serverAddr =>
         url[c].server = server \/ c \in inherited[server]

IInv ==
  /\ TypeOK /\ RequestsCurrent /\ LocksHeld /\ ListsComplete
  /\ OriginsKnown /\ NoForeignAnnouncements

-----------------------------------------------------------------------------
\* Appending adds one name to a list and keeps the others.
LEMMA ListedAppend ==
  ASSUME NEW S, NEW list \in Seq(S), NEW c \in S, NEW d
  PROVE  Listed(Append(list, c), d) <=> Listed(list, d) \/ d = c
  <1> DEFINE longer == Append(list, c)
  <1>1. /\ DOMAIN list = 1 .. Len(list) /\ Len(list) \in Nat
        /\ DOMAIN longer = 1 .. Len(list) + 1
        /\ \A i \in 1 .. Len(list) : longer[i] = list[i]
        /\ longer[Len(list) + 1] = c
    BY AppendProperties, LenProperties
  <1> HIDE DEF longer
  <1>2. Listed(longer, d) <=> Listed(list, d) \/ d = c
    BY <1>1 DEF Listed
  <1> QED BY <1>2 DEF longer

\* A request that is under way has the current server.
LEMMA AtServer ==
  ASSUME IInv, NEW h \in Handlers, stage[h] # "none"
  PROVE  conn[h] = server /\ server \in Servers
  BY DEF IInv, RequestsCurrent, TypeOK, Open, Servers

\* The read lock keeps the types.
LEMMA ReadLockTypes == TypeOK /\ (RLock(Test) \/ RUnlock(Test)) => TypeOK'
  <1> SUFFICES ASSUME TypeOK, RLock(Test) \/ RUnlock(Test) PROVE TypeOK'
    OBVIOUS
  <1>1. stage' \in [Handlers -> InHandler \cup {"none", "sent"}]
    BY DEF TypeOK, RLock, RUnlock, Goes, InHandler, ReadSection
  <1>2. readers' \in [Servers -> SUBSET {Test}]
    <2>1. readers \in [Servers -> SUBSET {Test}]
      BY DEF TypeOK
    <2>2. PICK S \in SUBSET {Test} : readers' = [readers EXCEPT ![At(Test)] = S]
                                  \/ (At(Test) \notin Servers /\ readers' = readers)
      <3>1. CASE At(Test) \in Servers
        <4>1. readers[At(Test)] \cup {Test} \in SUBSET {Test}
              /\ readers[At(Test)] \ {Test} \in SUBSET {Test}
          BY <2>1, <3>1
        <4> QED BY <4>1 DEF RLock, RUnlock
      <3>2. CASE At(Test) \notin Servers
        <4>1. readers' = readers
          BY <2>1, <3>2 DEF RLock, RUnlock
        <4> QED BY <3>2, <4>1
      <3> QED BY <3>1, <3>2
    <2> QED BY <2>1, <2>2
  <1>3. UNCHANGED <<packageVars, registered, writer, conn, slice, containerVars, hostVars,
                    specVars, acked, readVars>>
    BY DEF RLock, RUnlock, Frame
  <1> QED BY <1>1, <1>2, <1>3
      DEF TypeOK, packageVars, containerVars, hostVars, specVars, readVars

\* Every step keeps the invariant.
LEMMA Inductive == IInv /\ [Next]_vars => IInv'
  <1> SUFFICES ASSUME IInv, [Next]_vars PROVE IInv'
    OBVIOUS
  <1> USE AnnouncementAssumption
      DEF IInv, TypeOK, Handlers, Servers, WriteSection, ReadSection, InHandler, Open,
          RequestsCurrent, LocksHeld, ListsComplete, OriginsKnown, NoForeignAnnouncements,
          vars, packageVars, lockVars, containerVars, hostVars, specVars, readVars, Goes, Frame, At
  <1>1. CASE Start
    <2>1. TypeOK'
      BY <1>1 DEF Start
    <2>2. RequestsCurrent'
      BY <1>1 DEF Start
    <2>3. LocksHeld'
      BY <1>1 DEF Start
    <2>4. ListsComplete'
      BY <1>1 DEF Start
    <2>5. OriginsKnown'
      BY <1>1 DEF Start
    <2>6. NoForeignAnnouncements'
      BY <1>1 DEF Start
    <2> QED BY <2>1, <2>2, <2>3, <2>4, <2>5, <2>6
  <1>2. CASE StartFails
    <2>1. TypeOK'
      BY <1>2 DEF StartFails
    <2>2. RequestsCurrent'
      BY <1>2 DEF StartFails
    <2>3. LocksHeld'
      BY <1>2 DEF StartFails
    <2>4. ListsComplete'
      BY <1>2 DEF StartFails
    <2>5. OriginsKnown'
      BY <1>2 DEF StartFails
    <2>6. NoForeignAnnouncements'
      BY <1>2 DEF StartFails
    <2> QED BY <2>1, <2>2, <2>3, <2>4, <2>5, <2>6
  <1>3. CASE Stop
    <2>1. TypeOK'
      BY <1>3 DEF Stop
    <2>2. RequestsCurrent'
      BY <1>3 DEF Stop
    <2>3. LocksHeld'
      BY <1>3 DEF Stop
    <2>4. ListsComplete'
      BY <1>3 DEF Stop
    <2>5. OriginsKnown'
      BY <1>3 DEF Stop
    <2>6. NoForeignAnnouncements'
      BY <1>3 DEF Stop
    <2> QED BY <2>1, <2>2, <2>3, <2>4, <2>5, <2>6
  <1>4. CASE StopReturns
    <2>1. TypeOK'
      BY <1>4 DEF StopReturns
    <2>2. RequestsCurrent'
      BY <1>4 DEF StopReturns
    <2>3. LocksHeld'
      BY <1>4 DEF StopReturns
    <2>4. ListsComplete'
      BY <1>4 DEF StopReturns
    <2>5. OriginsKnown'
      BY <1>4 DEF StopReturns
    <2>6. NoForeignAnnouncements'
      BY <1>4 DEF StopReturns
    <2> QED BY <2>1, <2>2, <2>3, <2>4, <2>5, <2>6
  <1>5. CASE CleanupGarden
    <2>1. TypeOK'
      BY <1>5 DEF CleanupGarden
    <2>2. RequestsCurrent'
      BY <1>5 DEF CleanupGarden
    <2>3. LocksHeld'
      BY <1>5 DEF CleanupGarden
    <2>4. ListsComplete'
      BY <1>5 DEF CleanupGarden
    <2>5. OriginsKnown'
      BY <1>5 DEF CleanupGarden
    <2>6. NoForeignAnnouncements'
      BY <1>5 DEF CleanupGarden
    <2> QED BY <2>1, <2>2, <2>3, <2>4, <2>5, <2>6
  <1>6. CASE CallAnnouncements
    <2>1. TypeOK'
      BY <1>6 DEF CallAnnouncements
    <2>2. RequestsCurrent'
      BY <1>6 DEF CallAnnouncements
    <2>3. LocksHeld'
      BY <1>6 DEF CallAnnouncements
    <2>4. ListsComplete'
      <3>1. /\ stage'[Test] = "sent" /\ conn'[Test] = server
            /\ \A c \in Containers : stage'[c] = stage[c] /\ conn'[c] = conn[c]
        BY <1>6 DEF CallAnnouncements
      <3>2. UNCHANGED <<registered, acked, answer, slice>>
        BY <1>6 DEF CallAnnouncements
      <3>3. \A c \in known' : c \in acked /\ conn[c] = server
        BY <1>6 DEF CallAnnouncements
      <3>4. \A c \in known' : Listed(registered'[conn'[Test]], c)
        BY <3>1, <3>2, <3>3
      <3> QED BY <3>1, <3>2, <3>4
    <2>5. OriginsKnown'
      BY <1>6 DEF CallAnnouncements
    <2>6. NoForeignAnnouncements'
      BY <1>6 DEF CallAnnouncements
    <2> QED BY <2>1, <2>2, <2>3, <2>4, <2>5, <2>6
  <1>7. CASE AnnouncementsReturns
    <2>1. TypeOK'
      BY <1>7 DEF AnnouncementsReturns
    <2>2. RequestsCurrent'
      BY <1>7 DEF AnnouncementsReturns
    <2>3. LocksHeld'
      BY <1>7 DEF AnnouncementsReturns
    <2>4. ListsComplete'
      BY <1>7 DEF AnnouncementsReturns
    <2>5. OriginsKnown'
      BY <1>7 DEF AnnouncementsReturns
    <2>6. NoForeignAnnouncements'
      BY <1>7 DEF AnnouncementsReturns
    <2> QED BY <2>1, <2>2, <2>3, <2>4, <2>5, <2>6
  <1>8. CASE RLock(Test)
    <2>1. TypeOK'
      BY <1>8, ReadLockTypes
    <2>2. RequestsCurrent'
      BY <1>8 DEF RLock
    <2>3. LocksHeld'
      <3>1. \A d \in Containers : stage'[d] = stage[d] /\ conn'[d] = conn[d]
        BY <1>8 DEF RLock
      <3>2. ASSUME NEW d \in Containers, stage[d] \in WriteSection PROVE readers'[conn[d]] = {}
        <4>1. conn[d] = server /\ conn[Test] = server /\ writer[server] = d
          BY <1>8, <3>2 DEF RLock
        <4> QED BY <1>8, <4>1 DEF RLock
      <3>3. conn[Test] = server /\ server \in Servers /\ conn' = conn
        BY <1>8, AtServer DEF RLock
      <3>4. stage'[Test] = "reading" /\ Test \in readers'[conn'[Test]]
        BY <1>8, <3>3 DEF RLock
      <3> QED BY <1>8, <3>1, <3>2, <3>4 DEF RLock
    <2>4. ListsComplete'
      BY <1>8 DEF RLock
    <2>5. OriginsKnown'
      BY <1>8 DEF RLock
    <2>6. NoForeignAnnouncements'
      BY <1>8 DEF RLock
    <2> QED BY <2>1, <2>2, <2>3, <2>4, <2>5, <2>6
  <1>9. CASE Encode(Test)
    <2>1. TypeOK'
      <3>1. conn[Test] \in Servers
        <4>1. Test \in Handlers /\ stage[Test] # "none"
          BY <1>9 DEF Encode
        <4> QED BY ONLY IInv, <4>1, AtServer
      <3>2. registered[conn[Test]] \in Seq(Containers)
        BY <3>1
      <3> QED BY <1>9, <3>2 DEF Encode
    <2>2. RequestsCurrent'
      BY <1>9 DEF Encode
    <2>3. LocksHeld'
      BY <1>9 DEF Encode
    <2>4. ListsComplete'
      BY <1>9 DEF Encode
    <2>5. OriginsKnown'
      BY <1>9 DEF Encode
    <2>6. NoForeignAnnouncements'
      BY <1>9 DEF Encode
    <2> QED BY <2>1, <2>2, <2>3, <2>4, <2>5, <2>6
  <1>10. CASE RUnlock(Test)
    <2>1. TypeOK'
      BY <1>10, ReadLockTypes
    <2>2. RequestsCurrent'
      BY <1>10 DEF RUnlock
    <2>3. LocksHeld'
      BY <1>10 DEF RUnlock
    <2>4. ListsComplete'
      BY <1>10 DEF RUnlock
    <2>5. OriginsKnown'
      BY <1>10 DEF RUnlock
    <2>6. NoForeignAnnouncements'
      BY <1>10 DEF RUnlock
    <2> QED BY <2>1, <2>2, <2>3, <2>4, <2>5, <2>6
  <1>11. ASSUME NEW c \in Containers, AnnounceURL(c) PROVE IInv'
    <2>1. TypeOK'
      BY <1>11 DEF AnnounceURL
    <2>2. RequestsCurrent'
      BY <1>11 DEF AnnounceURL
    <2>3. LocksHeld'
      BY <1>11 DEF AnnounceURL
    <2>4. ListsComplete'
      BY <1>11 DEF AnnounceURL
    <2>5. OriginsKnown'
      BY <1>11 DEF AnnounceURL
    <2>6. NoForeignAnnouncements'
      BY <1>11 DEF AnnounceURL
    <2> QED BY <2>1, <2>2, <2>3, <2>4, <2>5, <2>6
  <1>12. ASSUME NEW c \in Containers, Connect(c) PROVE IInv'
    <2>1. TypeOK'
      BY <1>12, SMTT(30) DEF Connect
    <2>2. RequestsCurrent'
      BY <1>12, SMTT(30) DEF Connect
    <2>3. LocksHeld'
      BY <1>12, SMTT(30) DEF Connect
    <2>4. ListsComplete'
      BY <1>12, SMTT(30) DEF Connect
    <2>5. OriginsKnown'
      BY <1>12, SMTT(30) DEF Connect
    <2>6. NoForeignAnnouncements'
      BY <1>12 DEF Connect
    <2> QED BY <2>1, <2>2, <2>3, <2>4, <2>5, <2>6
  <1>13. ASSUME NEW c \in Containers, Refused(c) PROVE IInv'
    <2>1. TypeOK'
      BY <1>13 DEF Refused
    <2>2. RequestsCurrent'
      BY <1>13 DEF Refused
    <2>3. LocksHeld'
      BY <1>13 DEF Refused
    <2>4. ListsComplete'
      BY <1>13 DEF Refused
    <2>5. OriginsKnown'
      BY <1>13 DEF Refused
    <2>6. NoForeignAnnouncements'
      BY <1>13 DEF Refused
    <2> QED BY <2>1, <2>2, <2>3, <2>4, <2>5, <2>6
  <1>14. ASSUME NEW c \in Containers, Dies(c) PROVE IInv'
    <2>1. TypeOK'
      BY <1>14 DEF Dies
    <2>2. RequestsCurrent'
      BY <1>14 DEF Dies
    <2>3. LocksHeld'
      BY <1>14 DEF Dies
    <2>4. ListsComplete'
      BY <1>14 DEF Dies
    <2>5. OriginsKnown'
      BY <1>14 DEF Dies
    <2>6. NoForeignAnnouncements'
      BY <1>14 DEF Dies
    <2> QED BY <2>1, <2>2, <2>3, <2>4, <2>5, <2>6
  <1>15. ASSUME NEW h \in Handlers, Serve(h) PROVE IInv'
    <2>1. TypeOK'
      BY <1>15 DEF Serve
    <2>2. RequestsCurrent'
      BY <1>15 DEF Serve
    <2>3. LocksHeld'
      BY <1>15 DEF Serve
    <2>4. ListsComplete'
      BY <1>15 DEF Serve
    <2>5. OriginsKnown'
      BY <1>15 DEF Serve
    <2>6. NoForeignAnnouncements'
      BY <1>15 DEF Serve
    <2> QED BY <2>1, <2>2, <2>3, <2>4, <2>5, <2>6
  <1>16. ASSUME NEW c \in Containers, CallLock(c) PROVE IInv'
    <2>1. TypeOK'
      BY <1>16 DEF CallLock
    <2>2. RequestsCurrent'
      BY <1>16 DEF CallLock
    <2>3. LocksHeld'
      BY <1>16 DEF CallLock
    <2>4. ListsComplete'
      BY <1>16 DEF CallLock
    <2>5. OriginsKnown'
      BY <1>16 DEF CallLock
    <2>6. NoForeignAnnouncements'
      BY <1>16 DEF CallLock
    <2> QED BY <2>1, <2>2, <2>3, <2>4, <2>5, <2>6
  <1>17. ASSUME NEW c \in Containers, Lock(c) PROVE IInv'
    <2>1. TypeOK'
      BY <1>17 DEF Lock
    <2>2. RequestsCurrent'
      BY <1>17 DEF Lock
    <2>3. LocksHeld'
      BY <1>17 DEF Lock
    <2>4. ListsComplete'
      BY <1>17 DEF Lock
    <2>5. OriginsKnown'
      BY <1>17 DEF Lock
    <2>6. NoForeignAnnouncements'
      BY <1>17 DEF Lock
    <2> QED BY <2>1, <2>2, <2>3, <2>4, <2>5, <2>6
  <1>18. ASSUME NEW c \in Containers, Load(c) PROVE IInv'
    <2>1. TypeOK'
      <3>1. registered[conn[c]] \in Seq(Containers)
        BY <1>18, AtServer DEF Load
      <3> QED BY <1>18, <3>1 DEF Load
    <2>2. RequestsCurrent'
      BY <1>18, SMTT(30) DEF Load
    <2>3. LocksHeld'
      BY <1>18, SMTT(30) DEF Load
    <2>4. ListsComplete'
      BY <1>18, SMTT(30) DEF Load
    <2>5. OriginsKnown'
      BY <1>18, SMTT(30) DEF Load
    <2>6. NoForeignAnnouncements'
      BY <1>18 DEF Load
    <2> QED BY <2>1, <2>2, <2>3, <2>4, <2>5, <2>6
  <1>19. ASSUME NEW c \in Containers, Store(c) PROVE IInv'
    <2>1. TypeOK'
      <3>1. Append(slice[c], c) \in Seq(Containers)
        BY <1>19
      <3>2. registered' \in [Servers -> Seq(Containers)]
        BY <1>19, <3>1 DEF Store
      <3>3. stage' \in [Handlers -> InHandler \cup {"none", "sent"}]
        BY <1>19 DEF Store
      <3> QED BY <1>19, <3>2, <3>3 DEF Store
    <2>2. RequestsCurrent'
      BY <1>19 DEF Store
    <2>3. LocksHeld'
      BY <1>19 DEF Store
    <2>4. ListsComplete'
      <3>1. /\ conn[c] = server /\ server \in Servers /\ slice[c] = registered[server]
            /\ registered[server] \in Seq(Containers)
        BY <1>19 DEF Store
      <3>2. registered' = [registered EXCEPT ![server] = Append(registered[server], c)]
        BY <1>19, <3>1 DEF Store
      <3>3. \A s \in Servers, d \in Containers :
              Listed(registered'[s], d) <=> Listed(registered[s], d) \/ (s = server /\ d = c)
        BY <3>1, <3>2, ListedAppend
      <3>4. \A d \in Containers \ {c} : stage[d] \notin WriteSection
        <4> SUFFICES ASSUME NEW d \in Containers \ {c}, stage[d] \in WriteSection PROVE FALSE
          OBVIOUS
        <4>1. stage[c] = "loaded" /\ conn[d] = server
          BY <1>19 DEF Store
        <4>2. writer[server] = d /\ writer[server] = c
          BY <3>1, <4>1
        <4> QED BY <4>2
      <3>5. /\ stage'[c] = "stored" /\ \A h \in Handlers \ {c} : stage'[h] = stage[h]
            /\ UNCHANGED <<conn, acked, known, answer, slice, server>>
        BY <1>19 DEF Store
      <3>6. \A d \in acked : d # c /\ d \in Containers
        BY <1>19 DEF Store
      <3>7. \A d \in Containers : stage'[d] = "loaded" => slice'[d] = registered'[conn'[d]]
        BY ONLY <3>4, <3>5 DEF WriteSection, Handlers
      <3>8. \A d \in Containers :
              stage'[d] \in {"stored", "answering"} => Listed(registered'[conn'[d]], d)
        <4> SUFFICES ASSUME NEW d \in Containers, stage'[d] \in {"stored", "answering"}
                     PROVE  Listed(registered'[conn'[d]], d)
          OBVIOUS
        <4>1. stage[d] # "none"
          BY <1>19, <3>5 DEF Store
        <4>2. conn'[d] = server
          BY <3>5, <4>1, AtServer
        <4>3. d # c => Listed(registered[server], d)
          BY <3>5, <4>1, AtServer
        <4> QED BY <3>1, <3>3, <4>2, <4>3
      <3>9. \A d \in acked' :
              stage'[d] = "none" /\ conn'[d] \in Servers /\ Listed(registered'[conn'[d]], d)
        BY <3>3, <3>5, <3>6
      <3>10. stage'[Test] # "none" => \A d \in known' : Listed(registered'[conn'[Test]], d)
        <4>1. known' = known /\ conn'[Test] = conn[Test] /\ stage'[Test] = stage[Test]
          BY ONLY <3>5, AnnouncementAssumption, c \in Containers DEF Handlers
        <4>2. stage[Test] # "none" => conn[Test] = server
          OBVIOUS
        <4>3. known \subseteq Containers
          OBVIOUS
        <4> QED BY <3>1, <3>3, <4>1, <4>2, <4>3
      <3>11. stage'[Test] \in {"encoded", "answering"} => \A d \in known' : Listed(answer', d)
        BY <3>5
      <3> QED BY <3>7, <3>8, <3>9, <3>10, <3>11
    <2>5. OriginsKnown'
      BY <1>19, ListedAppend, SMTT(30) DEF Store
    <2>6. NoForeignAnnouncements'
      BY <1>19, ListedAppend, SMTT(30) DEF Store
    <2> QED BY <2>1, <2>2, <2>3, <2>4, <2>5, <2>6
  <1>20. ASSUME NEW c \in Containers, Unlock(c) PROVE IInv'
    <2>1. TypeOK'
      BY <1>20 DEF Unlock
    <2>2. RequestsCurrent'
      BY <1>20 DEF Unlock
    <2>3. LocksHeld'
      <3>1. \A d \in Containers \ {c} : stage[d] \notin WriteSection \cup {"waiting"}
        <4>1. stage[c] = "stored" /\ conn[c] = server /\ writer[server] = c
          BY <1>20 DEF Unlock
        <4> SUFFICES ASSUME NEW d \in Containers \ {c},
                            stage[d] \in WriteSection \cup {"waiting"}
                     PROVE  FALSE
          OBVIOUS
        <4>2. conn[d] = server /\ writer[conn[d]] = d
          OBVIOUS
        <4> QED BY ONLY <4>1, <4>2, d \in Containers \ {c}
      <3>2. stage'[c] = "answering" /\ \A h \in Handlers \ {c} : stage'[h] = stage[h]
        BY <1>20 DEF Unlock
      <3>3. conn' = conn /\ readers' = readers
        BY <1>20 DEF Unlock
      <3> QED BY <3>1, <3>2, <3>3
    <2>4. ListsComplete'
      BY <1>20 DEF Unlock
    <2>5. OriginsKnown'
      BY <1>20 DEF Unlock
    <2>6. NoForeignAnnouncements'
      BY <1>20 DEF Unlock
    <2> QED BY <2>1, <2>2, <2>3, <2>4, <2>5, <2>6
  <1>21. ASSUME NEW c \in Containers, Respond(c) PROVE IInv'
    <2>1. TypeOK'
      BY <1>21, SMTT(30) DEF Respond
    <2>2. RequestsCurrent'
      BY <1>21, SMTT(30) DEF Respond
    <2>3. LocksHeld'
      BY <1>21, SMTT(30) DEF Respond
    <2>4. ListsComplete'
      BY <1>21, SMTT(30) DEF Respond
    <2>5. OriginsKnown'
      BY <1>21, SMTT(30) DEF Respond
    <2>6. NoForeignAnnouncements'
      BY <1>21 DEF Respond
    <2> QED BY <2>1, <2>2, <2>3, <2>4, <2>5, <2>6
  <1>22. ASSUME OtherStarts PROVE IInv'
    <2>1. TypeOK'
      BY <1>22 DEF OtherStarts
    <2>2. RequestsCurrent'
      BY <1>22 DEF OtherStarts
    <2>3. LocksHeld'
      BY <1>22 DEF OtherStarts
    <2>4. ListsComplete'
      BY <1>22 DEF OtherStarts
    <2>5. OriginsKnown'
      BY <1>22 DEF OtherStarts
    <2>6. NoForeignAnnouncements'
      BY <1>22 DEF OtherStarts
    <2> QED BY <2>1, <2>2, <2>3, <2>4, <2>5, <2>6
  <1>23. ASSUME OtherStops PROVE IInv'
    <2>1. TypeOK'
      BY <1>23 DEF OtherStops
    <2>2. RequestsCurrent'
      BY <1>23 DEF OtherStops
    <2>3. LocksHeld'
      BY <1>23 DEF OtherStops
    <2>4. ListsComplete'
      BY <1>23 DEF OtherStops
    <2>5. OriginsKnown'
      BY <1>23 DEF OtherStops
    <2>6. NoForeignAnnouncements'
      BY <1>23 DEF OtherStops
    <2> QED BY <2>1, <2>2, <2>3, <2>4, <2>5, <2>6
  <1>24. ASSUME NEW c \in Containers, OtherAnnounceURL(c) PROVE IInv'
    <2>1. TypeOK'
      BY <1>24, SMTT(30) DEF OtherAnnounceURL
    <2>2. RequestsCurrent'
      BY <1>24, SMTT(30) DEF OtherAnnounceURL
    <2>3. LocksHeld'
      BY <1>24, SMTT(30) DEF OtherAnnounceURL
    <2>4. ListsComplete'
      BY <1>24, SMTT(30) DEF OtherAnnounceURL
    <2>5. OriginsKnown'
      BY <1>24, SMTT(30) DEF OtherAnnounceURL
    <2>6. NoForeignAnnouncements'
      BY <1>24 DEF OtherAnnounceURL
    <2> QED BY <2>1, <2>2, <2>3, <2>4, <2>5, <2>6
  <1>25. CASE UNCHANGED vars
    BY <1>25 DEF Listed
  <1> QED BY <1>1, <1>2, <1>3, <1>4, <1>5, <1>6, <1>7, <1>8, <1>9, <1>10, <1>11, <1>12, <1>13, <1>14, <1>15, <1>16, <1>17, <1>18, <1>19, <1>20, <1>21, <1>22, <1>23, <1>24, <1>25
      DEF Next, TestStep, ListAnnouncements, Announce

\* The invariant holds in every state.
LEMMA Invariance == Spec => []IInv
  <1>1. Init => IInv
    <2> SUFFICES ASSUME Init PROVE IInv
      OBVIOUS
    <2>1. \A s \in Servers : \A c \in Containers : ~Listed(registered[s], c)
      BY DEF Init, Listed, Servers
    <2>2. TypeOK
      <3>1. << >> \in Seq(Containers)
        BY EmptySeq
      <3>2. /\ registered \in [Servers -> Seq(Containers)]
            /\ slice \in [Containers -> Seq(Containers)]
            /\ answer \in Seq(Containers)
        BY <3>1 DEF Init
      <3>3. /\ url \in [Containers -> [server : 0 .. MaxSpecs, addr : Ports \cup {0}]]
            /\ conn \in [Handlers -> 0 .. MaxSpecs]
        BY AnnouncementAssumption DEF Init
      <3>4. /\ writer \in [Servers -> Containers \cup {None}]
            /\ readers \in [Servers -> SUBSET {Test}]
            /\ stage \in [Handlers -> InHandler \cup {"none", "sent"}]
        BY DEF Init
      <3>5. life \in [Containers -> {"absent", "running", "gone"}] /\ listening \in BOOLEAN
        BY DEF Init
      <3>6. server \in 0 .. MaxSpecs /\ specs \in 0 .. MaxSpecs /\ server <= specs
        BY AnnouncementAssumption DEF Init
      <3>7. /\ serverAddr \in Ports \cup {0} /\ phase \in {"idle", "body", "stopping", "stopped"}
            /\ leaked \subseteq Containers /\ acked \subseteq Containers /\ known \subseteq Containers
            /\ elsewhere \subseteq Ports /\ inherited \in [Servers -> SUBSET Containers]
        BY DEF Init
      <3> QED BY <3>2, <3>3, <3>4, <3>5, <3>6, <3>7 DEF TypeOK
    <2>3. RequestsCurrent /\ LocksHeld
      BY DEF Init, RequestsCurrent, LocksHeld, Handlers, WriteSection, ReadSection, Open
    <2>4. ListsComplete /\ OriginsKnown /\ NoForeignAnnouncements
      BY <2>1 DEF Init, ListsComplete, OriginsKnown, NoForeignAnnouncements, Handlers
    <2> QED BY <2>2, <2>3, <2>4 DEF IInv
  <1> QED BY <1>1, Inductive, PTL DEF Spec

-----------------------------------------------------------------------------
\* The types, for every set of containers and ports.
THEOREM TypeCorrect == Spec => []TypeOK
  <1>1. IInv => TypeOK
    BY DEF IInv
  <1> QED BY <1>1, Invariance, PTL

\* The slice of announcements is never written while another handler reads or
\* writes it: the RWMutex of the server excludes them.
THEOREM LockSafety == Spec => []NoDataRace
  <1>1. IInv => NoDataRace
    <2> SUFFICES ASSUME IInv, NEW g \in Handlers, NEW h \in Handlers,
                        g # h, conn[g] = conn[h], stage[g] \in WriteSection
                 PROVE  stage[h] \notin WriteSection \cup ReadSection
      BY DEF NoDataRace
    <2>1. g \in Containers /\ writer[conn[g]] = g /\ readers[conn[g]] = {}
      BY DEF IInv, LocksHeld, Handlers
    <2>2. CASE h \in Containers
      BY <2>1, <2>2 DEF IInv, LocksHeld
    <2>3. CASE h = Test
      BY <2>1, <2>3 DEF IInv, LocksHeld
    <2> QED BY <2>2, <2>3 DEF Handlers
  <1> QED BY <1>1, Invariance, PTL

\* Announcements() returns everything that was answered before it was called.
THEOREM Freshness == Spec => []ReadsAreFresh
  <1>1. IInv => ReadsAreFresh
    BY DEF IInv, ListsComplete, ReadsAreFresh
  <1> QED BY <1>1, Invariance, PTL

\* A server lists its own spec's containers, and otherwise only such as had its
\* port before it: left by CleanupGarden, or of another process, for any number
\* of processes and whatever free ports the kernel hands out.
THEOREM OwnAnnouncementsOnly == Spec => []NoForeignAnnouncements
  <1>1. IInv => NoForeignAnnouncements
    BY DEF IInv
  <1> QED BY <1>1, Invariance, PTL

-----------------------------------------------------------------------------
\* Each step of the server is a step of the board or leaves it alone.
LEMMA StepRefines ==
  ASSUME IInv, [Next]_vars
  PROVE  [Board!Next]_Board!vars
  <1> USE DEF Board!vars, packageVars, lockVars, containerVars, hostVars, specVars, readVars, Frame, Goes, At
  <1>1. CASE Start
    <2>1. Board!OpenBoard
      BY <1>1, AnnouncementAssumption DEF Start, IInv, TypeOK, Board!OpenBoard
    <2> QED BY <2>1 DEF Board!Next
  <1>2. CASE StartFails \/ Stop \/ CleanupGarden
    BY <1>2 DEF StartFails, Stop, CleanupGarden
  <1>3. CASE StopReturns
    <2>1. Board!CloseBoard
      BY <1>3 DEF StopReturns, Board!CloseBoard
    <2> QED BY <2>1 DEF Board!Next
  <1>4. CASE TestStep
    BY <1>4 DEF TestStep, CallAnnouncements, AnnouncementsReturns
  <1>5. CASE ListAnnouncements
    <2>1. CASE Serve(Test) \/ RLock(Test) \/ RUnlock(Test)
      BY <2>1 DEF Serve, RLock, RUnlock
    <2>2. CASE Encode(Test)
      <3>1. Test \in Handlers /\ stage[Test] = "reading"
        BY <2>2 DEF Encode, Handlers
      <3>2. conn[Test] = server /\ phase \in {"body", "stopping"}
        BY <3>1 DEF IInv, RequestsCurrent, Open
      <3>3. Board!Read
        BY <2>2, <3>2 DEF Encode, Board!Read
      <3> QED BY <3>3 DEF Board!Next
    <2> QED BY <1>5, <2>1, <2>2 DEF ListAnnouncements
  <1>6. ASSUME NEW c \in Containers, AnnounceURL(c) \/ Connect(c) \/ Refused(c) \/ Dies(c)
        PROVE  [Board!Next]_Board!vars
    BY <1>6 DEF AnnounceURL, Connect, Refused, Dies
  <1>7. ASSUME NEW c \in Containers, Announce(c)
        PROVE  [Board!Next]_Board!vars
    <2>1. CASE Serve(c) \/ CallLock(c) \/ Lock(c) \/ Load(c) \/ Unlock(c)
      BY <2>1 DEF Serve, CallLock, Lock, Load, Unlock
    <2>2. CASE Store(c)
      <3>1. stage[c] = "loaded" /\ c \in Handlers
        BY <2>2 DEF Store, Handlers
      <3>2. /\ conn[c] = server /\ phase \in {"body", "stopping"}
            /\ slice[c] = registered[server]
        BY <3>1 DEF IInv, RequestsCurrent, Open, ListsComplete
      <3>3. Board!Post(c)
        BY <2>2, <3>2 DEF Store, Board!Post
      <3> QED BY <3>3 DEF Board!Next
    <2>3. CASE Respond(c)
      <3>1. stage[c] = "answering" /\ c \in Handlers
        BY <2>3 DEF Respond, Handlers
      <3>2. /\ phase \in {"body", "stopping"}
            /\ Listed(registered[server], c)
        BY <3>1 DEF IInv, RequestsCurrent, Open, ListsComplete
      <3>3. Board!Ack(c) \/ UNCHANGED Board!vars
        BY <2>3, <3>2 DEF Respond, Listed, Board!Ack
      <3> QED BY <3>3 DEF Board!Next
    <2> QED BY <1>7, <2>1, <2>2, <2>3 DEF Announce
  <1>8. CASE UNCHANGED vars
    BY <1>8 DEF vars
  <1>9. CASE OtherStarts \/ OtherStops \/ \E c \in Containers : OtherAnnounceURL(c)
    BY <1>9 DEF OtherStarts, OtherStops, OtherAnnounceURL
  <1> QED BY <1>1, <1>2, <1>3, <1>4, <1>5, <1>6, <1>7, <1>8, <1>9 DEF Next

\* The server implements the announcement board: locks, slices and goroutines
\* together behave like atomic posts and reads on one board per spec.
THEOREM Refinement == Spec => ImplementsBoard
  <1>1. Init => Board!Init
    BY DEF Init, Board!Init, Servers
  <1>2. IInv /\ [Next]_vars => [Board!Next]_Board!vars
    BY StepRefines
  <1> QED BY <1>1, <1>2, Invariance, PTL DEF Spec, ImplementsBoard, Board!Spec
=============================================================================
