----------------------------- MODULE Hub_proofs -----------------------------
(***************************************************************************)
(* The hub, for any servers, rooms, clients and streams, however often it  *)
(* ends: an id is one creator's, a room on a screen can be joined on the   *)
(* server it is of, and a client misses only members whose joining it was  *)
(* not told of.  That last one needs who is owed to the client at each     *)
(* stage of its own call.                                                  *)
(***************************************************************************)
EXTENDS Hub, TLAPS

(* A room is stored with the server its id is drawn for.                   *)
HomesOK == \A s \in Server, r \in Room : rooms[<<s, r>>] # None => s = ServerOf[r]

(* Rooms that are there to be joined, or were in an earlier run.           *)
Joinable == { r \in Room : \/ r \in retired
                           \/ rooms[<<ServerOf[r], r>>] \in {"public", "password"} }
Used == { r \in Room : r \in retired \/ \E s \in Server : rooms[<<s, r>>] # None }

(* A stream that is in use has its request, with the places and answers    *)
(* that belong to it.                                                      *)
Held(i) == pc[i] # "off" \/ waiting[i] => call[i] # None
Asks(i, m) == call[i] # None /\ call[i].of = m
StreamsOK ==
    \A i \in Stream :
        /\ Held(i)
        /\ call[i] # None =>
             /\ call[i].server \in Server
             /\ call[i].of \in {"JoinRoom", "ListRoomMembers"} => call[i].room \in Room
             /\ pc[i] = "add" => call[i].of = "JoinRoom"
             /\ pc[i] = "listing" => call[i].of = "ListRoomMembers" /\ answer[i] = None
             /\ pc[i] \in {"advertise", "publish"} => call[i].of \in {"CreateRoom", "JoinRoom"}
             /\ call[i].of = "ListRooms" => server[call[i].by] \in Server

(* What is on the screens, and on its way to them, can be joined.          *)
ListsOK ==
    /\ \A c \in Client : /\ shown[c] \subseteq Joinable
                         /\ shown[c] # {} => server[c] \in Server
    /\ \A i \in Stream : call[i] # None =>
         /\ pc[i] = "publish" /\ call[i].of = "CreateRoom" => list[i] \subseteq Joinable
         /\ answer[i] # None =>
              /\ call[i].of = "ListRooms" => answer[i].list \subseteq Joinable
              /\ call[i].of = "ListRoomMembers" => answer[i].list \subseteq Client

(* An id is in use before its creator hears of it, and only one does.      *)
Claims(c, r) == r \in auth[c] \/ \E i \in Stream : /\ Asks(i, "CreateRoom")
                                                   /\ call[i].by = c /\ call[i].room = r
KeysOK ==
    /\ \A i \in Stream : Asks(i, "CreateRoom") /\ answer[i] # None =>
                            answer[i].error \/ call[i].room \in Room
    /\ \A c \in Client, r \in Room : Claims(c, r) => r \in Used
    /\ \A c, d \in Client, r \in Room : Claims(c, r) /\ Claims(d, r) => c = d

(* The UI goroutine waits for one call, which is about where it is.        *)
UICalls(i, c) == waiting[i] /\ call[i] # None /\ call[i].of # "ListRooms" /\ call[i].by = c
UIOK ==
    /\ \A i \in Stream, c \in Client : UICalls(i, c) => ui[c] = "call"
    /\ \A i, j \in Stream, c \in Client : UICalls(i, c) /\ UICalls(j, c) => i = j
    /\ \A i \in Stream : waiting[i] /\ Asks(i, "ListRoomMembers") =>
         call[i].server = ServerOf[call[i].room] /\ call[i].room = cur[call[i].by]
    /\ \A i \in Stream : waiting[i] /\ Asks(i, "JoinRoom") =>
         server[call[i].by] = ServerOf[call[i].room]
    /\ \A c \in Client : ui[c] \in {"subscribe", "list"} =>
         cur[c] \in Room /\ server[c] = ServerOf[cur[c]] /\ ~listed[c]
    /\ \A l \in loops : l[2] = ServerOf[l[3]]

(* Nobody is missed by a client that has its list, and whoever its own     *)
(* call will not tell it of, it will be told of otherwise.                 *)
Reached(l, d) == d \in known[l[1]][cur[l[1]]] \/ Told(l, d) \/ <<l, d>> \in untold
Here(c) == <<c, ServerOf[cur[c]], cur[c]>>
MembersOK ==
    \A l \in loops : l = Here(l[1]) /\ listed[l[1]] =>
        \A d \in members[<<l[2], l[3]>>] \ {l[1]} : Reached(l, d)
OwedOK ==
    \A i \in Stream : waiting[i] /\ Asks(i, "ListRoomMembers") =>
        \A l \in loops : l = Here(call[i].by) =>
            \A d \in members[<<l[2], l[3]>>] \ {l[1]} :
                /\ pc[i] = "listing" => d \in list[i] \/ Reached(l, d)
                /\ answer[i] # None /\ ~answer[i].error =>
                     d \in answer[i].list \/ Reached(l, d)

HubInv ==
    TypeOK /\ HomesOK /\ StreamsOK /\ ListsOK /\ KeysOK /\ UIOK /\ MembersOK /\ OwedOK

-----------------------------------------------------------------------------
(* The invariant holds before anybody has called.                          *)
THEOREM InitHubInv == Init => HubInv
<1> SUFFICES ASSUME Init PROVE HubInv OBVIOUS
<1> USE HubAssumption DEF Init
<1>1. StoreTypeOK BY DEF StoreTypeOK
<1>2. StreamTypeOK BY DEF StreamTypeOK, Place
<1>3. ClientTypeOK BY DEF ClientTypeOK, Id
<1>4. StreamsOK BY DEF StreamsOK, Held
<1>5. ListsOK BY DEF ListsOK
<1>6. KeysOK BY DEF KeysOK, Claims, Asks
<1>7. UIOK BY DEF UIOK, UICalls, Asks
<1>8. HomesOK /\ OwedOK /\ MembersOK BY DEF HomesOK, OwedOK, MembersOK
<1>9. QED BY <1>1, <1>2, <1>3, <1>4, <1>5, <1>6, <1>7, <1>8 DEF HubInv, TypeOK

(* A new room takes an id that no room has had.                            *)
RoomAdded ==
    \E r \in Room, v \in Visibility :
        /\ rooms[<<ServerOf[r], r>>] = None
        /\ rooms' = [rooms EXCEPT ![<<ServerOf[r], r>>] = v]

LEMMA RoomsGrow ==
    ASSUME HubInv, retired' = retired, rooms' = rooms \/ RoomAdded
    PROVE  Joinable \subseteq Joinable' /\ Used \subseteq Used' /\ HomesOK'
<1>1. CASE rooms' = rooms BY <1>1 DEF Joinable, Used, HomesOK, HubInv
<1>2. ASSUME NEW r \in Room, NEW v \in Visibility, rooms[<<ServerOf[r], r>>] = None,
             rooms' = [rooms EXCEPT ![<<ServerOf[r], r>>] = v]
      PROVE  Joinable \subseteq Joinable' /\ Used \subseteq Used' /\ HomesOK'
  <2>1. v # None /\ None \notin {"public", "password"} BY HubAssumption
  <2>2. \A q \in Room : ServerOf[q] \in Server BY HubAssumption
  <2>3. \A t \in Server, q \in Room :
          rooms'[<<t, q>>] = IF t = ServerOf[r] /\ q = r THEN v ELSE rooms[<<t, q>>]
    BY <1>2 DEF HubInv, TypeOK, StoreTypeOK
  <2>4. Used \subseteq Used' BY <1>2, <2>1, <2>3 DEF Used
  <2>5. HomesOK' BY <2>3 DEF HomesOK, HubInv
  <2>6. Joinable \subseteq Joinable' BY <1>2, <2>1, <2>2, <2>3 DEF Joinable
  <2>7. QED BY <2>4, <2>5, <2>6
<1>3. QED BY <1>1, <1>2 DEF RoomAdded

(* What tells a client of a member stays until it does.                    *)
Tells(i, l, d) ==
    /\ Asks(i, "JoinRoom") /\ call[i].by = d /\ Key(i) = <<l[2], l[3]>>
    /\ pc[i] = "advertise" \/ (pc[i] = "publish" /\ d \in list[i])

LEMMA ReachedStays ==
    ASSUME NEW l, NEW d, Reached(l, d),
           cur'[l[1]] = cur[l[1]],
           known[l[1]][cur[l[1]]] \subseteq known'[l[1]][cur[l[1]]],
           \A m \in inbox : m.loop = l => m \in inbox',
           \A u \in untold : u[1] = l => u \in untold',
           \A i \in Stream : Tells(i, l, d) => Tells(i, l, d)'
    PROVE  Reached(l, d)'
BY DEF Reached, Told, Tells, Asks

-----------------------------------------------------------------------------
(* What the calls have in common: who may call, and what the first step    *)
(* answers and leaves for the rest of the handler.                         *)
Fitting(c, m, s, r, place, a) ==
    /\ m \in Method /\ s \in Server /\ r \in Id(Room) /\ a \in Answer \cup {None}
    /\ place \in {"off", "add", "listing", "advertise"}
    /\ place = "add" => m = "JoinRoom"
    /\ place = "listing" => m = "ListRoomMembers" /\ a = None
    /\ place = "advertise" => m = "CreateRoom"
    /\ m \in {"JoinRoom", "ListRoomMembers"} => r \in Room
    /\ m = "ListRooms" => server[c] \in Server
    /\ m = "JoinRoom" => server[c] = ServerOf[r]
    /\ m = "ListRooms" /\ a # None => a.list \subseteq Joinable
    /\ m = "ListRoomMembers" => s = ServerOf[r] /\ r = cur[c] /\ (a = None \/ a = Error)
    /\ m = "CreateRoom" => \/ r = None /\ a = Error
                           \/ r \in Used' \ Used

StoreGrows ==
    /\ StoreTypeOK' /\ HomesOK' /\ Joinable \subseteq Joinable' /\ Used \subseteq Used'
    /\ members' = members /\ untold' = untold

Snapshots(i, m, s, r, place) ==
    /\ list' \in [Stream -> SUBSET (Client \cup Server \cup Room)]
    /\ \A j \in Stream \ {i} : list'[j] = list[j]
    /\ m = "ListRoomMembers" /\ place = "listing" => list'[i] = members[<<s, r>>]

Waits(c, m) ==
    IF m = "ListRooms" THEN ui' = ui
    ELSE ui[c] \in {"idle", "list"} /\ ui' = [ui EXCEPT ![c] = "call"]

LEMMA RequestKeepsHubInv ==
    ASSUME HubInv, NEW i \in Stream, NEW c \in Client, NEW m, NEW s, NEW r, NEW place, NEW a,
           Request(i, c, m, s, r, place, a), Fitting(c, m, s, r, place, a),
           StoreGrows, Snapshots(i, m, s, r, place), Waits(c, m)
    PROVE  HubInv'
<1> USE DEF HubInv, TypeOK
<1> DEFINE req == [by |-> c, of |-> m, server |-> s, room |-> r]
<1>1. /\ ~waiting[i] /\ pc[i] = "off" /\ req \in Call /\ req # None
      /\ pc' = [pc EXCEPT ![i] = place] /\ call' = [call EXCEPT ![i] = req]
      /\ answer' = [answer EXCEPT ![i] = a] /\ waiting' = [waiting EXCEPT ![i] = TRUE]
      /\ UNCHANGED <<server, shown, cur, known, listed, loops, inbox, auth>>
  BY HubAssumption, NoneAssumption
     DEF Request, Fitting, Call, Id, StreamTypeOK, session
<1> HIDE DEF req
<1>2. /\ pc'[i] = place /\ call'[i] = req /\ answer'[i] = a /\ waiting'[i]
      /\ \A j \in Stream \ {i} : /\ pc'[j] = pc[j] /\ call'[j] = call[j] /\ list'[j] = list[j]
                                 /\ answer'[j] = answer[j] /\ waiting'[j] = waiting[j]
  BY <1>1 DEF StreamTypeOK, Snapshots
<1>3. req.by = c /\ req.of = m /\ req.server = s /\ req.room = r BY DEF req
<1>4. StreamTypeOK' BY <1>1 DEF StreamTypeOK, Fitting, Snapshots, Place
<1>5. ClientTypeOK' BY <1>1 DEF ClientTypeOK, Waits
<1>6. StreamsOK' BY <1>1, <1>2, <1>3 DEF StreamsOK, Held, Fitting
<1>7. ListsOK' BY <1>1, <1>2, <1>3 DEF ListsOK, Fitting, StoreGrows, Error
<1>8. KeysOK'
  <2>1. \A j \in Stream : (Asks(j, "CreateRoom") /\ answer[j] # None)' =>
                             answer'[j].error \/ call'[j].room \in Room
    BY <1>1, <1>2, <1>3 DEF KeysOK, Asks, Fitting, Error, Used
  <2>2. ASSUME NEW d \in Client, NEW q \in Room, Claims(d, q)'
        PROVE  Claims(d, q) \/ (d = c /\ q = r /\ r \in Used' \ Used)
    <3>1. CASE q \in auth[d] BY <3>1 DEF Claims
    <3>2. ASSUME NEW j \in Stream, Asks(j, "CreateRoom")', call'[j].by = d, call'[j].room = q
          PROVE  Claims(d, q) \/ (d = c /\ q = r /\ r \in Used' \ Used)
      <4>1. CASE j = i BY <1>2, <1>3, <3>2, <4>1, HubAssumption DEF Asks, Fitting
      <4>2. CASE j # i BY <1>2, <3>2, <4>2 DEF Asks, Claims
      <4>3. QED BY <4>1, <4>2
    <3>3. QED BY <1>1, <2>2, <3>1, <3>2 DEF Claims
  <2>3. \A d \in Client, q \in Room : Claims(d, q) => q \in Used /\ q \in Used'
    BY DEF KeysOK, StoreGrows
  <2>4. \A d \in Client, q \in Room : Claims(d, q)' => q \in Used'
    BY <2>2, <2>3
  <2>5. \A d, e \in Client, q \in Room : Claims(d, q)' /\ Claims(e, q)' => d = e
    BY <2>2, <2>3 DEF KeysOK
  <2>6. QED BY <2>1, <2>4, <2>5 DEF KeysOK
<1>9. UIOK'
  <2>1. ASSUME NEW j \in Stream, NEW d \in Client, UICalls(j, d)'
        PROVE  \/ j # i /\ UICalls(j, d) /\ call'[j] = call[j]
               \/ j = i /\ d = c /\ m # "ListRooms"
    BY <1>2, <1>3, <2>1 DEF UICalls
  <2>2. m # "ListRooms" => \A j \in Stream : ~UICalls(j, c)
    BY DEF UIOK, Waits
  <2>3. \A d \in Client : \/ ui'[d] = ui[d]
                          \/ d = c /\ m # "ListRooms" /\ ui'[d] = "call"
    BY DEF Waits, ClientTypeOK
  <2>4. \A j \in Stream, d \in Client : UICalls(j, d)' => ui'[d] = "call"
    BY <2>1, <2>2, <2>3 DEF UIOK, Waits, ClientTypeOK
  <2>5. \A j, k \in Stream, d \in Client : UICalls(j, d)' /\ UICalls(k, d)' => j = k
    BY <2>1, <2>2 DEF UIOK
  <2>6. \A j \in Stream : (waiting[j] /\ Asks(j, "ListRoomMembers"))' =>
          call'[j].server = ServerOf[call'[j].room] /\ call'[j].room = cur'[call'[j].by]
    BY <1>1, <1>2, <1>3 DEF UIOK, Asks, Fitting
  <2>7. \A j \in Stream : (waiting[j] /\ Asks(j, "JoinRoom"))' =>
                             server'[call'[j].by] = ServerOf[call'[j].room]
    BY <1>1, <1>2, <1>3 DEF UIOK, Asks, Fitting
  <2>8. \A d \in Client : ui'[d] \in {"subscribe", "list"} =>
          cur'[d] \in Room /\ server'[d] = ServerOf[cur'[d]] /\ ~listed'[d]
    BY <1>1, <2>3 DEF UIOK
  <2>9. loops' = loops BY <1>1
  <2>10. QED BY <2>4, <2>5, <2>6, <2>7, <2>8, <2>9 DEF UIOK
<1>10. ASSUME NEW l \in loops, NEW d, Reached(l, d) PROVE Reached(l, d)'
  <2>1. \A j \in Stream : Tells(j, l, d) => j # i BY <1>1 DEF Tells
  <2>2. \A j \in Stream : Tells(j, l, d) => Tells(j, l, d)'
    BY <1>2, <2>1 DEF Tells, Asks, Key
  <2>3. QED BY <1>1, <1>10, <2>2, ReachedStays DEF StoreGrows
<1>11. MembersOK' BY <1>1, <1>10 DEF MembersOK, Here, StoreGrows
<1>12. OwedOK'
  <2> SUFFICES ASSUME NEW j \in Stream, waiting'[j], Asks(j, "ListRoomMembers")',
                      NEW l \in loops, (l = Here(call[j].by))',
                      NEW d \in members[<<l[2], l[3]>>] \ {l[1]}
               PROVE  /\ pc'[j] = "listing" => d \in list'[j] \/ Reached(l, d)'
                      /\ answer'[j] # None /\ ~answer'[j].error =>
                           d \in answer'[j].list \/ Reached(l, d)'
    BY <1>1 DEF OwedOK, StoreGrows
  <2>1. CASE j = i
    BY <1>1, <1>2, <1>3, <2>1 DEF Asks, Fitting, Snapshots, Here, Error
  <2>2. CASE j # i
    BY <1>1, <1>2, <1>10, <2>2 DEF OwedOK, Asks, Here
  <2>3. QED BY <2>1, <2>2
<1>13. QED BY <1>4, <1>5, <1>6, <1>7, <1>8, <1>9, <1>11, <1>12 DEF StoreGrows

(* The store is left alone by most calls.                                  *)
LEMMA StoreStays == ASSUME HubInv, UNCHANGED store PROVE StoreGrows
BY DEF HubInv, TypeOK, StoreTypeOK, HomesOK, StoreGrows, store, Joinable, Used

LEMMA ListStays ==
    ASSUME HubInv, UNCHANGED list, NEW i, NEW m, NEW s, NEW r, NEW place,
           place # "listing"
    PROVE  Snapshots(i, m, s, r, place)
BY DEF HubInv, TypeOK, StreamTypeOK, Snapshots

LEMMA PlainAnswers == Success \in Answer /\ Error \in Answer
BY DEF Success, Listing, Error, Answer

LEMMA CreateRoomKeepsInv ==
    ASSUME HubInv, NEW i \in Stream, NEW c \in Client, NEW v \in Visibility,
           CreateRoom(i, c, v)
    PROVE  HubInv'
<1> USE HubAssumption
<1>1. PICK r \in RoomsOf(server[c]) \ retired :
        /\ rooms[<<server[c], r>>] = None
        /\ rooms' = [rooms EXCEPT ![<<server[c], r>>] = v]
        /\ Request(i, c, "CreateRoom", server[c], r, "advertise", Success)
  BY DEF CreateRoom
<1>2. r \in Room /\ server[c] = ServerOf[r] /\ server[c] \in Server
  BY DEF RoomsOf
<1>3. /\ UNCHANGED <<servers, members, retired, heard, untold, list>>
      /\ ui[c] = "idle" /\ ui' = [ui EXCEPT ![c] = "call"]
  BY DEF CreateRoom, UICall
<1>4. StoreTypeOK' BY <1>1, <1>2, <1>3 DEF HubInv, TypeOK, StoreTypeOK
<1>5. StoreGrows
  <2>1. RoomAdded BY <1>1, <1>2 DEF RoomAdded
  <2>2. QED BY <1>3, <1>4, <2>1, RoomsGrow DEF StoreGrows
<1>6. r \in Used' \ Used
  <2>1. \A s \in Server : rooms[<<s, r>>] = None
    BY <1>1, <1>2 DEF HubInv, HomesOK
  <2>2. rooms'[<<server[c], r>>] = v /\ v # None
    BY <1>1, <1>2 DEF HubInv, TypeOK, StoreTypeOK
  <2>3. r \in Used' BY <1>2, <2>2 DEF Used
  <2>4. QED BY <1>1, <2>1, <2>3 DEF Used
<1>7. Fitting(c, "CreateRoom", server[c], r, "advertise", Success)
  BY <1>2, <1>6, PlainAnswers DEF Fitting, Method, Id
<1>8. Waits(c, "CreateRoom") BY <1>3 DEF Waits
<1>9. Snapshots(i, "CreateRoom", server[c], r, "advertise") BY <1>3, ListStays
<1>10. QED BY <1>1, <1>5, <1>7, <1>8, <1>9, RequestKeepsHubInv

(* What is listed is stored with the server it is listed for.              *)
LEMMA ListedJoinable ==
    ASSUME HomesOK, NEW s \in Server
    PROVE  PublicRooms(s) \subseteq Joinable
BY HubAssumption DEF HomesOK, PublicRooms, Joinable

(* Every call does what fits it.                                           *)
LEMMA CallsKeepHubInv ==
    ASSUME HubInv, NEW i \in Stream, NEW c \in Client, Calls(i, c)
    PROVE  HubInv'
<1> USE HubAssumption
<1>1. CASE ListRooms(i, c)
  <2> DEFINE a == IF servers[server[c]] = None THEN None ELSE Listing(PublicRooms(server[c]))
  <2>1. server[c] \in Server
    BY <1>1 DEF ListRooms, HubInv, TypeOK, ClientTypeOK, Id
  <2>2. PublicRooms(server[c]) \subseteq Joinable
    BY <2>1, ListedJoinable DEF HubInv
  <2>3. a \in Answer \cup {None} /\ (a # None => a.list \subseteq Joinable)
    <3>1. PublicRooms(server[c]) \subseteq Room BY DEF PublicRooms
    <3>2. Listing(PublicRooms(server[c])) \in Answer
      BY <3>1 DEF Answer, Listing
    <3>3. Listing(PublicRooms(server[c])).list = PublicRooms(server[c]) BY DEF Listing
    <3>4. QED BY <2>2, <3>2, <3>3
  <2>4. Fitting(c, "ListRooms", server[c], None, "off", a)
    BY <2>1, <2>3 DEF Fitting, Method, Id
  <2>5. Waits(c, "ListRooms") BY <1>1 DEF ListRooms, Waits
  <2>6. Request(i, c, "ListRooms", server[c], None, "off", a) BY <1>1 DEF ListRooms
  <2>7. QED
    BY <1>1, <2>4, <2>5, <2>6, StoreStays, ListStays, RequestKeepsHubInv DEF ListRooms
<1>2. ASSUME NEW v \in Visibility, CreateServer(i, c, v) PROVE HubInv'
  <2>1. PICK s \in Server \ retired :
          /\ servers' = [servers EXCEPT ![s] = v]
          /\ Request(i, c, "CreateServer", s, None, "off", Success)
    BY <1>2 DEF CreateServer
  <2>2. StoreGrows
    <3>1. UNCHANGED <<rooms, members, retired, heard, untold>> BY <1>2 DEF CreateServer
    <3>2. StoreTypeOK' BY <2>1, <3>1 DEF HubInv, TypeOK, StoreTypeOK
    <3>3. QED BY <3>1, <3>2 DEF StoreGrows, Joinable, Used, HubInv, HomesOK
  <2>3. Fitting(c, "CreateServer", s, None, "off", Success)
    BY PlainAnswers DEF Fitting, Method, Id
  <2>4. Waits(c, "CreateServer") BY <1>2 DEF CreateServer, UICall, Waits
  <2>5. QED BY <1>2, <2>1, <2>2, <2>3, <2>4, ListStays, RequestKeepsHubInv DEF CreateServer
<1>3. CASE CreateRoomFails(i, c)
  <2>1. server[c] \in Server
    BY <1>3 DEF CreateRoomFails, HubInv, TypeOK, ClientTypeOK, Id
  <2>2. Fitting(c, "CreateRoom", server[c], None, "off", Error)
    BY <2>1 DEF Fitting, Method, Id, Error, Answer
  <2>3. Waits(c, "CreateRoom") BY <1>3 DEF CreateRoomFails, UICall, Waits
  <2>4. QED
    BY <1>3, <2>2, <2>3, StoreStays, ListStays, RequestKeepsHubInv DEF CreateRoomFails
<1>4. ASSUME NEW s \in Server, JoinServer(i, c, s) PROVE HubInv'
  <2>1. PICK a \in {Success, Error} : Request(i, c, "JoinServer", s, None, "off", a)
    BY <1>4 DEF JoinServer
  <2>2. Fitting(c, "JoinServer", s, None, "off", a)
    BY PlainAnswers DEF Fitting, Method, Id
  <2>3. Waits(c, "JoinServer") BY <1>4 DEF JoinServer, UICall, Waits
  <2>4. QED
    BY <1>4, <2>1, <2>2, <2>3, StoreStays, ListStays, RequestKeepsHubInv DEF JoinServer
<1>5. ASSUME NEW r \in Room,
             JoinRoom(i, c, r) \/ SenderMismatch(i, c, r) \/ WrongPassword(i, c, r)
      PROVE  HubInv'
  <2>1. server[c] = ServerOf[r] /\ server[c] \in Server
    <3>1. server[c] \in Server /\ rooms[<<server[c], r>>] # None
      BY <1>5 DEF JoinRoom, SenderMismatch, WrongPassword, Chosen, HubInv, ListsOK
    <3>2. QED BY <3>1 DEF HubInv, HomesOK
  <2>2. PICK place \in {"add", "off"}, a \in {Success, Error} :
          Request(i, c, "JoinRoom", server[c], r, place, a)
    BY <1>5 DEF JoinRoom, SenderMismatch, WrongPassword
  <2>3. Fitting(c, "JoinRoom", server[c], r, place, a)
    BY <2>1, PlainAnswers DEF Fitting, Method, Id
  <2>4. Waits(c, "JoinRoom") BY <1>5 DEF JoinRoom, SenderMismatch, WrongPassword, Chosen, UICall, Waits
  <2>5. UNCHANGED <<store, list>> BY <1>5 DEF JoinRoom, SenderMismatch, WrongPassword
  <2>6. QED BY <2>2, <2>3, <2>4, <2>5, StoreStays, ListStays, RequestKeepsHubInv
<1>6. CASE ListRoomMembers(i, c) \/ ListRoomMembersFails(i, c)
  <2>1. /\ ui[c] = "list" /\ cur[c] \in Room
        /\ server[c] = ServerOf[cur[c]] /\ server[c] \in Server
    BY <1>6 DEF ListRoomMembers, ListRoomMembersFails, UICall, HubInv, UIOK
  <2>2. Waits(c, "ListRoomMembers") /\ UNCHANGED store
    BY <1>6 DEF ListRoomMembers, ListRoomMembersFails, UICall, Waits
  <2>3. CASE ListRoomMembers(i, c)
    <3>1. Fitting(c, "ListRoomMembers", server[c], cur[c], "listing", None)
      BY <2>1 DEF Fitting, Method, Id
    <3>2. Snapshots(i, "ListRoomMembers", server[c], cur[c], "listing")
      BY <2>1, <2>3 DEF ListRoomMembers, Snapshots, HubInv, TypeOK, StoreTypeOK, StreamTypeOK
    <3>3. QED BY <2>2, <2>3, <3>1, <3>2, StoreStays, RequestKeepsHubInv DEF ListRoomMembers
  <2>4. CASE ListRoomMembersFails(i, c)
    <3>1. Fitting(c, "ListRoomMembers", server[c], cur[c], "off", Error)
      BY <2>1 DEF Fitting, Method, Id, Error, Answer
    <3>2. QED
      BY <2>2, <2>4, <3>1, StoreStays, ListStays, RequestKeepsHubInv
         DEF ListRoomMembersFails
  <2>5. QED BY <1>6, <2>3, <2>4
<1>7. QED BY <1>1, <1>2, <1>3, <1>4, <1>5, <1>6, CreateRoomKeepsInv DEF Calls

-----------------------------------------------------------------------------
(* What holds of ids and of waiting callers goes on holding while requests *)
(* are only finished.                                                      *)
CallsEnd ==
    \A j \in Stream : /\ call'[j] \in {None, call[j]}
                      /\ waiting'[j] => waiting[j]

LEMMA KeysStay ==
    ASSUME KeysOK, Used \subseteq Used', CallsEnd, UNCHANGED auth,
           \A j \in Stream : Asks(j, "CreateRoom")' => answer'[j] \in {None, answer[j]}
    PROVE  KeysOK'
<1>1. \A j \in Stream : \A m : Asks(j, m)' => Asks(j, m) /\ call'[j] = call[j]
  BY DEF CallsEnd, Asks
<1>2. \A c \in Client, r \in Room : Claims(c, r)' => Claims(c, r)
  BY <1>1 DEF Claims
<1>3. \A j \in Stream : (Asks(j, "CreateRoom") /\ answer[j] # None)' =>
                           answer'[j].error \/ call'[j].room \in Room
  BY <1>1 DEF KeysOK
<1>4. QED BY <1>2, <1>3 DEF KeysOK

LEMMA UIStays ==
    ASSUME UIOK, CallsEnd, UNCHANGED <<ui, server, cur, listed>>, loops' \subseteq loops
    PROVE  UIOK'
<1>1. \A j \in Stream : \A m : (waiting[j] /\ Asks(j, m))' =>
                              waiting[j] /\ Asks(j, m) /\ call'[j] = call[j]
  BY DEF CallsEnd, Asks
<1>2. \A j \in Stream, c \in Client : UICalls(j, c)' => UICalls(j, c)
  BY DEF CallsEnd, UICalls
<1>3. QED BY <1>1, <1>2 DEF UIOK

(* A member is added: everybody's goroutine on the room's topic will be    *)
(* told of all members.                                                    *)
LEMMA AddMemberKeepsInv ==
    ASSUME HubInv, NEW i \in Stream, AddMember(i)
    PROVE  HubInv'
<1> USE DEF HubInv, TypeOK
<1>1. /\ pc[i] = "add" /\ pc' = [pc EXCEPT ![i] = "advertise"]
      /\ members' = [members EXCEPT ![Key(i)] = @ \cup {call[i].by}]
      /\ UNCHANGED <<servers, rooms, retired, heard, untold, call, list, answer, waiting, clients>>
  BY DEF AddMember, At, Goto
<1>2. /\ call[i] \in Call /\ call[i].of = "JoinRoom" /\ call[i].by \in Client
      /\ Key(i) \in Server \X Room
  BY <1>1 DEF StreamsOK, Held, StreamTypeOK, Call, Key
<1>3. /\ pc'[i] = "advertise" /\ \A j \in Stream \ {i} : pc'[j] = pc[j]
  BY <1>1 DEF StreamTypeOK
<1>4. StoreTypeOK' BY <1>1, <1>2 DEF StoreTypeOK
<1>5. StreamTypeOK' BY <1>1 DEF StreamTypeOK, Place
<1>6. ClientTypeOK' BY <1>1 DEF ClientTypeOK, clients, session
<1>7. StreamsOK' BY <1>1, <1>2, <1>3 DEF StreamsOK, Held, clients, session
<1>8. Joinable' = Joinable /\ Used' = Used /\ HomesOK'
  BY <1>1 DEF Joinable, Used, HomesOK
<1>9. ListsOK' BY <1>1, <1>3, <1>8 DEF ListsOK, clients, session
<1>10. CallsEnd BY <1>1 DEF CallsEnd
<1>11. KeysOK' BY <1>1, <1>8, <1>10, KeysStay DEF clients
<1>12. UIOK' BY <1>1, <1>10, UIStays DEF clients, session
<1>13. ASSUME NEW l \in loops, NEW d, Reached(l, d) PROVE Reached(l, d)'
  <2>1. \A j \in Stream : Tells(j, l, d) => Tells(j, l, d)'
    BY <1>1, <1>3 DEF Tells, Asks, Key
  <2>2. QED BY <1>1, <1>13, <2>1, ReachedStays DEF clients, session
<1>14. ASSUME NEW l \in loops, NEW d \in members'[<<l[2], l[3]>>]
       PROVE  d \in members[<<l[2], l[3]>>] \/ Reached(l, d)'
  <2>1. <<l[2], l[3]>> \in Server \X Room BY DEF ClientTypeOK, Loop
  <2>2. \/ d \in members[<<l[2], l[3]>>]
        \/ <<l[2], l[3]>> = Key(i) /\ d = call[i].by
    BY <1>1, <1>2, <1>14, <2>1 DEF StoreTypeOK
  <2>3. CASE <<l[2], l[3]>> = Key(i) /\ d = call[i].by
    <3>1. Tells(i, l, d)' BY <1>1, <1>2, <1>3, <2>3, HubAssumption, NoneAssumption
                             DEF Tells, Asks, Key
    <3>2. QED BY <3>1 DEF Reached, Told, Tells, Asks
  <2>4. QED BY <2>2, <2>3
<1>15. MembersOK' BY <1>1, <1>13, <1>14 DEF MembersOK, Here, clients, session
<1>16. OwedOK'
  <2> SUFFICES ASSUME NEW j \in Stream, waiting[j], Asks(j, "ListRoomMembers"),
                      NEW l \in loops, l = Here(call[j].by),
                      NEW d \in members'[<<l[2], l[3]>>] \ {l[1]}
               PROVE  /\ pc'[j] = "listing" => d \in list[j] \/ Reached(l, d)'
                      /\ answer[j] # None /\ ~answer[j].error =>
                           d \in answer[j].list \/ Reached(l, d)'
    BY <1>1 DEF OwedOK, Here, Asks, clients, session
  <2>1. j # i BY <1>2 DEF Asks
  <2>2. QED BY <1>3, <1>13, <1>14, <2>1 DEF OwedOK
<1>17. QED BY <1>4, <1>5, <1>6, <1>7, <1>8, <1>9, <1>11, <1>12, <1>15, <1>16

(* Nobody is missed while members and the lists on their way stay: a       *)
(* goroutine's client is where it was, and whoever it was to be told of is *)
(* still on the way, or it waits for no list.                              *)
LEMMA MembersHold ==
    ASSUME MembersOK, OwedOK, CallsEnd, UNCHANGED members,
           \A l \in loops' : l = Here(l[1])' =>
               \/ /\ l \in loops /\ l = Here(l[1]) /\ (listed'[l[1]] => listed[l[1]])
                  /\ \A d \in members[<<l[2], l[3]>>] \ {l[1]} : Reached(l, d) => Reached(l, d)'
               \/ /\ listed'[l[1]] =>
                       \A d \in members[<<l[2], l[3]>>] \ {l[1]} : Reached(l, d)'
                  /\ \A j \in Stream :
                       ~(waiting'[j] /\ Asks(j, "ListRoomMembers")' /\ call'[j].by = l[1]),
           \A j \in Stream : waiting'[j] /\ Asks(j, "ListRoomMembers")' =>
               /\ pc'[j] = "listing" => pc[j] = "listing" /\ list'[j] = list[j]
               /\ \/ answer'[j] \in {None, answer[j]}
                  \/ pc[j] = "listing" /\ list[j] \subseteq answer'[j].list
    PROVE  MembersOK' /\ OwedOK'
<1>1. MembersOK' BY DEF MembersOK
<1>2. OwedOK'
  <2> SUFFICES ASSUME NEW j \in Stream, waiting'[j], Asks(j, "ListRoomMembers")',
                      NEW l \in loops', (l = Here(call[j].by))',
                      NEW d \in members[<<l[2], l[3]>>] \ {l[1]}
               PROVE  /\ pc'[j] = "listing" => d \in list'[j] \/ Reached(l, d)'
                      /\ answer'[j] # None /\ ~answer'[j].error =>
                           d \in answer'[j].list \/ Reached(l, d)'
    BY DEF OwedOK
  <2>1. l[1] = call'[j].by /\ l = Here(l[1])' BY DEF Here
  <2>2. waiting[j] /\ Asks(j, "ListRoomMembers") /\ call'[j] = call[j]
    BY DEF CallsEnd, Asks
  <2>3. l \in loops /\ l = Here(l[1]) /\ (Reached(l, d) => Reached(l, d)')
    BY <2>1
  <2>4. /\ pc[j] = "listing" => d \in list[j] \/ Reached(l, d)
        /\ answer[j] # None /\ ~answer[j].error => d \in answer[j].list \/ Reached(l, d)
    BY <2>1, <2>2, <2>3 DEF OwedOK
  <2>5. QED BY <2>3, <2>4
<1>3. QED BY <1>1, <1>2

(* The same when no client moves.                                          *)
LEMMA MembersStay ==
    ASSUME MembersOK, OwedOK, CallsEnd,
           UNCHANGED <<members, server, cur, listed>>, loops' \subseteq loops,
           \A l \in loops' : \A d \in members[<<l[2], l[3]>>] \ {l[1]} :
               Reached(l, d) => Reached(l, d)',
           \A j \in Stream : waiting'[j] /\ Asks(j, "ListRoomMembers")' =>
               /\ pc'[j] = "listing" => pc[j] = "listing" /\ list'[j] = list[j]
               /\ \/ answer'[j] \in {None, answer[j]}
                  \/ pc[j] = "listing" /\ list[j] \subseteq answer'[j].list
    PROVE  MembersOK' /\ OwedOK'
<1>1. \A l \in loops' : l = Here(l[1])' => l \in loops /\ l = Here(l[1])
  BY DEF Here
<1>2. QED BY <1>1, MembersHold

(* The answer has whoever was a member when the map was first read.        *)
LEMMA MembersListedKeepsInv ==
    ASSUME HubInv, NEW i \in Stream, MembersListed(i)
    PROVE  HubInv'
<1> USE DEF HubInv, TypeOK
<1>1. /\ pc[i] = "listing" /\ pc' = [pc EXCEPT ![i] = "off"]
      /\ list' = [list EXCEPT ![i] = {}]
      /\ UNCHANGED <<store, call, waiting, clients>>
  BY DEF MembersListed, At, Goto
<1>2. PICK m \in SUBSET members[Key(i)] :
        list[i] \subseteq m /\ answer' = [answer EXCEPT ![i] = Listing(m)]
  BY DEF MembersListed, Iterated
<1>3. call[i] \in Call /\ call[i].of = "ListRoomMembers" /\ Key(i) \in Server \X Room
  BY <1>1 DEF StreamsOK, Held, StreamTypeOK, Call, Key
<1>4. m \subseteq Client BY <1>3 DEF StoreTypeOK
<1>5. Listing(m) \in Answer /\ Listing(m).list = m BY <1>4 DEF Listing, Answer
<1>6. /\ pc'[i] = "off" /\ answer'[i] = Listing(m)
      /\ \A j \in Stream \ {i} : pc'[j] = pc[j] /\ answer'[j] = answer[j] /\ list'[j] = list[j]
  BY <1>1, <1>2 DEF StreamTypeOK
<1>7. StoreTypeOK' BY <1>1 DEF StoreTypeOK, store
<1>8. StreamTypeOK' BY <1>1, <1>2, <1>5 DEF StreamTypeOK, Place
<1>9. ClientTypeOK' BY <1>1 DEF ClientTypeOK, clients, session
<1>10. StreamsOK' BY <1>1, <1>6 DEF StreamsOK, Held, clients, session
<1>11. Joinable' = Joinable /\ Used' = Used /\ HomesOK'
  BY <1>1 DEF Joinable, Used, HomesOK, store
<1>12. ListsOK'
  BY <1>1, <1>3, <1>4, <1>5, <1>6, <1>11 DEF ListsOK, clients, session
<1>13. CallsEnd BY <1>1 DEF CallsEnd
<1>14. KeysOK' BY <1>1, <1>3, <1>6, <1>11, <1>13, KeysStay DEF clients, Asks
<1>15. UIOK' BY <1>1, <1>13, UIStays DEF clients, session
<1>16. ASSUME NEW l \in loops, NEW d, Reached(l, d) PROVE Reached(l, d)'
  <2>1. \A j \in Stream : Tells(j, l, d) => Tells(j, l, d)'
    BY <1>1, <1>3, <1>6 DEF Tells, Asks, Key
  <2>2. QED BY <1>1, <1>16, <2>1, ReachedStays DEF store, clients, session
<1>17. MembersOK' /\ OwedOK'
  BY <1>1, <1>2, <1>5, <1>6, <1>13, <1>16, MembersStay DEF store, clients, session
<1>18. QED
  BY <1>7, <1>8, <1>9, <1>10, <1>11, <1>12, <1>14, <1>15, <1>17

(* The snapshot that is published has all members there are.               *)
LEMMA AdvertiseKeepsInv ==
    ASSUME HubInv, NEW i \in Stream, Advertise(i)
    PROVE  HubInv'
<1> USE DEF HubInv, TypeOK
<1>1. /\ pc[i] = "advertise" /\ pc' = [pc EXCEPT ![i] = "publish"]
      /\ list' = [list EXCEPT ![i] = Snapshot(i)]
      /\ UNCHANGED <<store, call, answer, waiting, clients>>
  BY DEF Advertise, At, Goto
<1>2. /\ call[i] \in Call /\ call[i].of \in {"CreateRoom", "JoinRoom"}
      /\ call[i].server \in Server
      /\ call[i].of = "JoinRoom" => Key(i) \in Server \X Room
  BY <1>1 DEF StreamsOK, Held, StreamTypeOK, Call, Key
<1>3. /\ call[i].of = "CreateRoom" => Snapshot(i) \subseteq Joinable
      /\ call[i].of = "JoinRoom" => Snapshot(i) = members[Key(i)] /\ Snapshot(i) \subseteq Client
  BY <1>2, ListedJoinable DEF Snapshot, StoreTypeOK
<1>4. Snapshot(i) \subseteq Client \cup Server \cup Room BY <1>2, <1>3 DEF Joinable
<1>5. /\ pc'[i] = "publish" /\ list'[i] = Snapshot(i)
      /\ \A j \in Stream \ {i} : pc'[j] = pc[j] /\ list'[j] = list[j]
  BY <1>1 DEF StreamTypeOK
<1>6. StoreTypeOK' BY <1>1 DEF StoreTypeOK, store
<1>7. StreamTypeOK' BY <1>1, <1>4 DEF StreamTypeOK, Place
<1>8. ClientTypeOK' BY <1>1 DEF ClientTypeOK, clients, session
<1>9. StreamsOK' BY <1>1, <1>2, <1>5 DEF StreamsOK, Held, clients, session
<1>10. Joinable' = Joinable /\ Used' = Used /\ HomesOK'
  BY <1>1 DEF Joinable, Used, HomesOK, store
<1>11. ListsOK' BY <1>1, <1>3, <1>5, <1>10 DEF ListsOK, clients, session
<1>12. CallsEnd BY <1>1 DEF CallsEnd
<1>13. KeysOK' BY <1>1, <1>10, <1>12, KeysStay DEF clients
<1>14. UIOK' BY <1>1, <1>12, UIStays DEF clients, session
<1>15. ASSUME NEW l \in loops, NEW d \in members[<<l[2], l[3]>>], Reached(l, d)
       PROVE  Reached(l, d)'
  <2>1. ASSUME NEW j \in Stream, Tells(j, l, d) PROVE Tells(j, l, d)'
    <3>1. CASE j = i BY <1>1, <1>3, <1>5, <2>1, <3>1 DEF Tells, Asks, Key
    <3>2. CASE j # i BY <1>1, <1>5, <2>1, <3>2 DEF Tells, Asks, Key
    <3>3. QED BY <3>1, <3>2
  <2>2. QED BY <1>1, <1>15, <2>1, ReachedStays DEF store, clients, session
<1>16. MembersOK' /\ OwedOK'
  <2>1. \A j \in Stream : Asks(j, "ListRoomMembers")' => j # i BY <1>1, <1>2 DEF Asks
  <2>2. QED
    BY <1>1, <1>5, <1>12, <1>15, <2>1, MembersStay DEF store, clients, session
<1>17. QED BY <1>6, <1>7, <1>8, <1>9, <1>10, <1>11, <1>13, <1>14, <1>16

(* A goroutine that ends takes its request with it once that is answered.  *)
LEMMA EndsOK ==
    ASSUME HubInv, NEW i \in Stream, pc[i] \in {"advertise", "publish"}, GoroutineEnds(i)
    PROVE  /\ pc' \in [Stream -> Place] /\ call' \in [Stream -> Call \cup {None}]
           /\ list' \in [Stream -> SUBSET (Client \cup Server \cup Room)]
           /\ pc'[i] = "off" /\ call'[i] \in {None, call[i]}
           /\ waiting[i] => call'[i] = call[i]
           /\ \A j \in Stream \ {i} : pc'[j] = pc[j] /\ list'[j] = list[j] /\ call'[j] = call[j]
BY DEF HubInv, TypeOK, StreamTypeOK, GoroutineEnds, Goto, Place

(* Rooms that can be joined get to the screens of those who look at them.  *)
LEMMA PublishRoomsKeepsInv ==
    ASSUME HubInv, NEW i \in Stream, PublishRooms(i)
    PROVE  HubInv'
<1> USE DEF HubInv, TypeOK
<1>1. /\ pc[i] = "publish" /\ call[i].of = "CreateRoom" /\ GoroutineEnds(i)
      /\ UNCHANGED <<store, answer, waiting, ui, server, cur, known, listed, loops, inbox, auth>>
  BY DEF PublishRooms, At
<1>2. PICK reached \in SUBSET { c \in Client : server[c] = call[i].server } :
        shown' = [c \in Client |-> IF c \in reached THEN list[i] ELSE shown[c]]
  BY DEF PublishRooms
<1>3. /\ pc' \in [Stream -> Place] /\ call' \in [Stream -> Call \cup {None}]
      /\ list' \in [Stream -> SUBSET (Client \cup Server \cup Room)]
      /\ pc'[i] = "off" /\ call'[i] \in {None, call[i]} /\ (waiting[i] => call'[i] = call[i])
      /\ \A j \in Stream \ {i} : pc'[j] = pc[j] /\ list'[j] = list[j] /\ call'[j] = call[j]
  BY <1>1, EndsOK
<1>4. call[i] # None /\ call[i].server \in Server BY <1>1 DEF StreamsOK, Held
<1>5. StoreTypeOK' BY <1>1 DEF StoreTypeOK, store
<1>6. StreamTypeOK' BY <1>1, <1>3 DEF StreamTypeOK
<1>7. list[i] \subseteq Joinable BY <1>1, <1>4 DEF ListsOK
<1>8. Joinable' = Joinable /\ Used' = Used /\ HomesOK' /\ Joinable \subseteq Room
  BY <1>1 DEF Joinable, Used, HomesOK, store
<1>9. ClientTypeOK' BY <1>1, <1>2, <1>7, <1>8 DEF ClientTypeOK
<1>10. StreamsOK' BY <1>1, <1>3 DEF StreamsOK, Held
<1>11. ListsOK'
  <2>1. \A c \in Client : /\ shown'[c] \subseteq Joinable
                          /\ shown'[c] # {} => server[c] \in Server
    BY <1>2, <1>4, <1>7 DEF ListsOK
  <2>2. QED BY <1>1, <1>3, <1>8, <2>1 DEF ListsOK
<1>12. CallsEnd BY <1>1, <1>3 DEF CallsEnd
<1>13. KeysOK' BY <1>1, <1>8, <1>12, KeysStay
<1>14. UIOK' BY <1>1, <1>12, UIStays
<1>15. ASSUME NEW l \in loops, NEW d, Reached(l, d) PROVE Reached(l, d)'
  <2>1. \A j \in Stream : Tells(j, l, d) => Tells(j, l, d)'
    BY <1>1, <1>3 DEF Tells, Asks, Key
  <2>2. QED BY <1>1, <1>15, <2>1, ReachedStays DEF store
<1>16. MembersOK' /\ OwedOK'
  <2>1. \A j \in Stream : pc'[j] = "listing" => j # i BY <1>3
  <2>2. QED BY <1>1, <1>3, <1>12, <1>15, <2>1, MembersStay DEF store
<1>17. QED BY <1>5, <1>6, <1>8, <1>9, <1>10, <1>11, <1>13, <1>14, <1>16

(* What holds of all but the members while goroutines that advertise end.  *)
LEMMA EndsKeepRest ==
    ASSUME HubInv, NEW i \in Stream, pc[i] \in {"advertise", "publish"}, GoroutineEnds(i),
           heard' = heard, untold' \subseteq Loop \X Client,
           inbox' \subseteq [loop : Loop, list : SUBSET Client],
           UNCHANGED <<servers, rooms, members, retired, answer, waiting, ui, session,
                       loops, auth>>
    PROVE  TypeOK' /\ HomesOK' /\ StreamsOK' /\ ListsOK' /\ KeysOK' /\ UIOK' /\ CallsEnd
<1> USE DEF HubInv, TypeOK
<1>1. UNCHANGED <<server, shown, cur, known, listed>> BY DEF session
<1>2. /\ pc' \in [Stream -> Place] /\ call' \in [Stream -> Call \cup {None}]
      /\ list' \in [Stream -> SUBSET (Client \cup Server \cup Room)]
      /\ pc'[i] = "off" /\ call'[i] \in {None, call[i]} /\ (waiting[i] => call'[i] = call[i])
      /\ \A j \in Stream \ {i} : pc'[j] = pc[j] /\ list'[j] = list[j] /\ call'[j] = call[j]
  BY EndsOK
<1>3. StoreTypeOK' BY DEF StoreTypeOK
<1>4. StreamTypeOK' BY <1>2 DEF StreamTypeOK
<1>5. ClientTypeOK' BY <1>1 DEF ClientTypeOK
<1>6. StreamsOK' BY <1>1, <1>2 DEF StreamsOK, Held
<1>7. Joinable' = Joinable /\ Used' = Used /\ HomesOK' BY DEF Joinable, Used, HomesOK
<1>8. ListsOK' BY <1>1, <1>2, <1>7 DEF ListsOK
<1>9. CallsEnd BY <1>2 DEF CallsEnd
<1>10. KeysOK' BY <1>7, <1>9, KeysStay
<1>11. UIOK' BY <1>1, <1>9, UIStays
<1>12. QED BY <1>3, <1>4, <1>5, <1>6, <1>7, <1>8, <1>9, <1>10, <1>11

(* A goroutine tells of who joined, or lets it go untold.                  *)
LEMMA MembersToldKeepInv ==
    ASSUME HubInv, NEW i \in Stream, pc[i] \in {"advertise", "publish"}, GoroutineEnds(i),
           heard' = heard, untold \subseteq untold', untold' \subseteq Loop \X Client,
           inbox \subseteq inbox', inbox' \subseteq [loop : Loop, list : SUBSET Client],
           \A l \in loops : \A d \in Client \ {l[1]} : Tells(i, l, d) =>
               <<l, d>> \in untold' \/ \E x \in inbox' : x.loop = l /\ d \in x.list,
           UNCHANGED <<servers, rooms, members, retired, answer, waiting, ui, session,
                       loops, auth>>
    PROVE  HubInv'
<1> USE DEF HubInv, TypeOK
<1>1. TypeOK' /\ HomesOK' /\ StreamsOK' /\ ListsOK' /\ KeysOK' /\ UIOK' /\ CallsEnd
  BY EndsKeepRest
<1>2. /\ pc'[i] = "off"
      /\ \A j \in Stream \ {i} : pc'[j] = pc[j] /\ list'[j] = list[j] /\ call'[j] = call[j]
  BY EndsOK
<1>3. UNCHANGED <<server, cur, known, listed>> BY DEF session
<1>4. ASSUME NEW l \in loops, NEW d \in members[<<l[2], l[3]>>] \ {l[1]}, Reached(l, d)
      PROVE  Reached(l, d)'
  <2>1. d \in Client BY DEF StoreTypeOK, ClientTypeOK, Loop
  <2>2. CASE Tells(i, l, d) BY <2>1, <2>2 DEF Reached, Told
  <2>3. CASE ~Tells(i, l, d)
    <3>1. \A j \in Stream : Tells(j, l, d) => Tells(j, l, d)'
      BY <1>2, <2>3 DEF Tells, Asks, Key
    <3>2. QED BY <1>3, <1>4, <3>1, ReachedStays
  <2>4. QED BY <2>2, <2>3
<1>5. MembersOK' /\ OwedOK'
  <2>1. \A j \in Stream : pc'[j] = "listing" => j # i BY <1>2
  <2>2. QED BY <1>1, <1>2, <1>3, <1>4, <2>1, MembersStay
<1>6. QED BY <1>1, <1>5

(* Who is not reached with the message is not told.                        *)
LEMMA UntoldTypes ==
    ASSUME HubInv, NEW i \in Stream, pc[i] \in {"advertise", "publish"},
           NEW reached, Untold(i, reached)
    PROVE  /\ untold \subseteq untold' /\ untold' \subseteq Loop \X Client
           /\ \A l \in loops \ reached : \A d \in Client \ {l[1]} :
                 Tells(i, l, d) => <<l, d>> \in untold'
<1>1. loops \subseteq Loop /\ untold \subseteq Loop \X Client
  BY DEF HubInv, TypeOK, StoreTypeOK, ClientTypeOK
<1>2. call[i] \in Call /\ call[i].by \in Client
  BY DEF HubInv, TypeOK, StreamTypeOK, StreamsOK, Held, Call
<1>3. QED BY <1>1, <1>2 DEF Untold, Missing, Watching, Tells

LEMMA PublishMembersKeepsInv ==
    ASSUME HubInv, NEW i \in Stream, PublishMembers(i)
    PROVE  HubInv'
<1> USE DEF HubInv, TypeOK
<1>1. /\ pc[i] = "publish" /\ call[i].of = "JoinRoom" /\ GoroutineEnds(i)
      /\ UNCHANGED <<servers, rooms, members, retired, heard, answer, waiting, ui,
                     session, loops, auth>>
  BY DEF PublishMembers, At
<1>2. PICK m \in SUBSET members[Key(i)], reached \in SUBSET loops :
        /\ list[i] \subseteq m /\ Untold(i, reached)
        /\ inbox' = inbox \cup { [loop |-> l, list |-> m] : l \in reached }
  BY DEF PublishMembers, Iterated, Watching
<1>3. m \subseteq Client
  <2>1. Key(i) \in Server \X Room BY <1>1 DEF StreamsOK, Held, Key
  <2>2. QED BY <2>1 DEF StoreTypeOK
<1>4. inbox' \subseteq [loop : Loop, list : SUBSET Client]
  <2>1. \A l \in loops : [loop |-> l, list |-> m] \in [loop : Loop, list : SUBSET Client]
    BY <1>3 DEF ClientTypeOK
  <2>2. QED BY <1>2, <2>1 DEF ClientTypeOK
<1>5. ASSUME NEW l \in reached, NEW d, Tells(i, l, d)
      PROVE  \E x \in inbox' : x.loop = l /\ d \in x.list
  <2>1. [loop |-> l, list |-> m] \in inbox' BY <1>2
  <2>2. d \in m BY <1>1, <1>2, <1>5 DEF Tells
  <2>3. QED BY <2>1, <2>2
<1>6. /\ untold \subseteq untold' /\ untold' \subseteq Loop \X Client
      /\ \A l \in loops \ reached : \A d \in Client \ {l[1]} :
            Tells(i, l, d) => <<l, d>> \in untold'
  BY <1>1, <1>2, UntoldTypes
<1>7. inbox \subseteq inbox' BY <1>2
<1>8. QED BY <1>1, <1>4, <1>5, <1>6, <1>7, MembersToldKeepInv

(* A goroutine that fails tells nobody.                                    *)
LEMMA AdvertiseFailsKeepsInv ==
    ASSUME HubInv, NEW i \in Stream, AdvertiseFails(i)
    PROVE  HubInv'
<1>1. /\ pc[i] \in {"advertise", "publish"} /\ GoroutineEnds(i)
      /\ UNCHANGED <<servers, rooms, members, retired, heard, answer, waiting, ui, session,
                     loops, inbox, auth>>
  BY DEF AdvertiseFails, clients
<1>2. inbox' \subseteq [loop : Loop, list : SUBSET Client]
  BY <1>1 DEF HubInv, TypeOK, ClientTypeOK
<1>3. CASE call[i].of = "JoinRoom"
  <2>1. Untold(i, {}) BY <1>3 DEF AdvertiseFails
  <2>2. /\ untold \subseteq untold' /\ untold' \subseteq Loop \X Client
        /\ \A l \in loops : \A d \in Client \ {l[1]} : Tells(i, l, d) => <<l, d>> \in untold'
    BY <1>1, <2>1, UntoldTypes
  <2>3. QED BY <1>1, <1>2, <2>2, MembersToldKeepInv
<1>4. CASE call[i].of # "JoinRoom"
  <2>1. untold' = untold BY <1>4 DEF AdvertiseFails
  <2>2. untold' \subseteq Loop \X Client BY <2>1 DEF HubInv, TypeOK, StoreTypeOK
  <2>3. \A l, d : ~Tells(i, l, d) BY <1>4 DEF Tells, Asks
  <2>4. QED BY <1>1, <1>2, <2>1, <2>2, <2>3, MembersToldKeepInv
<1>5. QED BY <1>3, <1>4

(* A hub that ends leaves nobody to be told of, and ids nobody will get.   *)
LEMMA HubEndsKeepsInv ==
    ASSUME HubInv, HubEnds
    PROVE  HubInv'
<1> USE DEF HubInv, TypeOK
<1>1. StoreTypeOK' BY DEF HubEnds, StoreTypeOK
<1>2. /\ StreamTypeOK' /\ CallsEnd
      /\ \A j \in Stream : /\ pc'[j] = "off" /\ (waiting[j] => call'[j] = call[j])
                           /\ call'[j] \in {None, call[j]}
      /\ UNCHANGED <<answer, waiting, clients>>
  BY DEF HubEnds, StreamTypeOK, CallsEnd, Place
<1>3. ClientTypeOK' BY <1>2 DEF ClientTypeOK, clients, session
<1>4. Used \subseteq Used' BY DEF Used, HubEnds
<1>5. Joinable \subseteq Joinable'
  <2> SUFFICES ASSUME NEW r \in Joinable PROVE r \in Joinable' OBVIOUS
  <2>1. r \in Room /\ (r \in retired \/ \E s \in Server : rooms[<<s, r>>] # None)
    BY HubAssumption DEF Joinable
  <2>2. QED BY <2>1 DEF Joinable, HubEnds
<1>6. StreamsOK' BY <1>2 DEF StreamsOK, Held, clients, session
<1>7. ListsOK' BY <1>2, <1>5 DEF ListsOK, clients, session
<1>8. KeysOK' BY <1>2, <1>4, KeysStay DEF clients
<1>9. UIOK' BY <1>2, UIStays DEF clients, session
<1>10. \A l \in loops : members'[<<l[2], l[3]>>] = {}
  BY DEF HubEnds, ClientTypeOK, Loop
<1>11. MembersOK' /\ OwedOK'
  BY <1>2, <1>10 DEF MembersOK, OwedOK, clients
<1>12. HomesOK' BY DEF HomesOK, HubEnds
<1>13. QED BY <1>1, <1>2, <1>3, <1>6, <1>7, <1>8, <1>9, <1>11, <1>12

-----------------------------------------------------------------------------
(* A stream that is closed is forgotten, unless its handler goes on.       *)
Closed(i) ==
    /\ waiting[i] /\ StreamCloses(i) /\ UNCHANGED <<store, pc, list>>
    /\ \A c \in Client : server[c] \in Server => server'[c] \in Server

LEMMA ClosedOK ==
    ASSUME HubInv, NEW i \in Stream, Closed(i)
    PROVE  /\ StoreTypeOK' /\ HomesOK' /\ StreamTypeOK' /\ StreamsOK' /\ CallsEnd
           /\ Joinable' = Joinable /\ Used' = Used /\ HomesOK'
           /\ ~waiting'[i] /\ answer'[i] = None /\ call'[i] \in {None, call[i]}
           /\ pc[i] # "off" => call'[i] = call[i]
           /\ \A j \in Stream \ {i} : /\ waiting'[j] = waiting[j] /\ call'[j] = call[j]
                                      /\ answer'[j] = answer[j]
           /\ call[i] \in Call /\ call[i].by \in Client
<1> USE DEF HubInv, TypeOK
<1>1. /\ waiting' = [waiting EXCEPT ![i] = FALSE] /\ answer' = [answer EXCEPT ![i] = None]
      /\ call' = [call EXCEPT ![i] = IF pc[i] = "off" THEN None ELSE call[i]]
      /\ waiting[i] /\ UNCHANGED <<servers, rooms, members, retired, heard, untold, pc, list>>
      /\ \A c \in Client : server[c] \in Server => server'[c] \in Server
  BY DEF Closed, StreamCloses, store
<1>2. call[i] \in Call /\ call[i].by \in Client
  BY <1>1 DEF StreamsOK, Held, StreamTypeOK, Call
<1>3. /\ ~waiting'[i] /\ answer'[i] = None /\ call'[i] \in {None, call[i]}
      /\ pc[i] # "off" => call'[i] = call[i]
      /\ \A j \in Stream \ {i} : /\ waiting'[j] = waiting[j] /\ call'[j] = call[j]
                                 /\ answer'[j] = answer[j]
  BY <1>1 DEF StreamTypeOK
<1>4. StoreTypeOK' BY <1>1 DEF StoreTypeOK
<1>5. StreamTypeOK' BY <1>1, <1>2 DEF StreamTypeOK
<1>6. \A j \in Stream : call[j] # None => call[j].by \in Client
  BY DEF StreamTypeOK, Call
<1>7. StreamsOK' BY <1>1, <1>3, <1>6 DEF StreamsOK, Held
<1>8. CallsEnd BY <1>3 DEF CallsEnd
<1>9. Joinable' = Joinable /\ Used' = Used /\ HomesOK'
  BY <1>1 DEF Joinable, Used, HomesOK
<1>10. QED BY <1>2, <1>3, <1>4, <1>5, <1>7, <1>8, <1>9

(* The caller goes on from its call, the only one it waited for.           *)
LEMMA CallerGoesOn ==
    ASSUME HubInv, NEW i \in Stream, Closed(i), NEW place \in {"idle", "subscribe"},
           IF call[i].of = "ListRooms" THEN ui' = ui ELSE Then(i, place)
    PROVE  /\ ui' \in [Client -> {"idle", "call", "subscribe", "list"}]
           /\ \A j \in Stream, c \in Client :
                UICalls(j, c)' => UICalls(j, c) /\ ui'[c] = "call" /\ call'[j] = call[j]
           /\ call[i].of # "ListRooms" =>
                \A j \in Stream, c \in Client : c = call[i].by => ~UICalls(j, c)'
           /\ \A c \in Client : ui'[c] \in {"subscribe", "list"} =>
                \/ ui[c] = ui'[c]
                \/ c = call[i].by /\ place = "subscribe" /\ call[i].of # "ListRooms"
<1> USE DEF HubInv, TypeOK
<1>1. /\ ~waiting'[i] /\ call[i] \in Call /\ call[i].by \in Client /\ call[i] # None
      /\ waiting[i]
      /\ \A j \in Stream \ {i} : waiting'[j] = waiting[j] /\ call'[j] = call[j]
  BY ClosedOK DEF Closed, StreamsOK, Held
<1>2. ui' \in [Client -> {"idle", "call", "subscribe", "list"}]
  BY <1>1 DEF Then, ClientTypeOK
<1>3. \A j \in Stream, c \in Client :
        UICalls(j, c)' => j # i /\ UICalls(j, c) /\ call'[j] = call[j]
  BY <1>1 DEF UICalls
<1>4. ASSUME call[i].of # "ListRooms", NEW j \in Stream, NEW c \in Client, c = call[i].by
      PROVE  ~UICalls(j, c)'
  <2>1. UICalls(i, c) BY <1>1, <1>4 DEF UICalls
  <2>2. UICalls(j, c) => j = i BY <2>1 DEF UIOK
  <2>3. QED BY <1>3, <2>2
<1>5. \A c \in Client : \/ ui'[c] = ui[c]
                        \/ c = call[i].by /\ call[i].of # "ListRooms" /\ ui'[c] = place
  BY <1>1 DEF Then, ClientTypeOK
<1>6. QED BY <1>2, <1>3, <1>4, <1>5 DEF UIOK

(* Most answers leave the caller where it is, with who it knows.           *)
LEMMA QuietAnswer ==
    ASSUME HubInv, NEW i \in Stream, Closed(i),
           IF call[i].of = "ListRooms" THEN ui' = ui ELSE Then(i, "idle"),
           UNCHANGED <<server, cur, known, listed, loops, inbox>>
    PROVE  UIOK' /\ MembersOK' /\ OwedOK'
<1> USE DEF HubInv
<1>1. /\ CallsEnd /\ ~waiting'[i] /\ answer'[i] = None /\ call'[i] \in {None, call[i]}
      /\ pc[i] # "off" => call'[i] = call[i]
      /\ \A j \in Stream \ {i} : /\ waiting'[j] = waiting[j] /\ call'[j] = call[j]
                                 /\ answer'[j] = answer[j]
  BY ClosedOK
<1>2. UNCHANGED <<members, untold, pc, list>> BY DEF Closed, store
<1>3. /\ \A j \in Stream, c \in Client :
           UICalls(j, c)' => UICalls(j, c) /\ ui'[c] = "call" /\ call'[j] = call[j]
      /\ \A c \in Client : ui'[c] \in {"subscribe", "list"} => ui[c] = ui'[c]
  BY CallerGoesOn
<1>4. \A j \in Stream : \A m : (waiting[j] /\ Asks(j, m))' =>
                              waiting[j] /\ Asks(j, m) /\ call'[j] = call[j]
  BY <1>1 DEF Asks
<1>5. UIOK' BY <1>3, <1>4 DEF UIOK
<1>6. ASSUME NEW l \in loops, NEW d, Reached(l, d) PROVE Reached(l, d)'
  <2>1. \A j \in Stream : Tells(j, l, d) => Tells(j, l, d)'
    BY <1>1, <1>2 DEF Tells, Asks, Key
  <2>2. QED BY <1>2, <1>6, <2>1, ReachedStays
<1>7. MembersOK' /\ OwedOK' BY <1>1, <1>2, <1>6, MembersStay
<1>8. QED BY <1>5, <1>7

LEMMA AnswersKeepKeys ==
    ASSUME HubInv, NEW i \in Stream, Closed(i), UNCHANGED auth
    PROVE  KeysOK'
<1>1. /\ CallsEnd /\ Used' = Used
      /\ \A j \in Stream : answer'[j] \in {None, answer[j]}
  BY ClosedOK
<1>2. QED BY <1>1, KeysStay DEF HubInv

LEMMA AnswersKeepLists ==
    ASSUME HubInv, NEW i \in Stream, Closed(i),
           shown' = shown \/ (/\ answer[i] # None /\ call[i].of = "ListRooms"
                              /\ shown' = [shown EXCEPT ![call[i].by] = answer[i].list])
    PROVE  ListsOK' /\ shown' \in [Client -> SUBSET Room]
<1> USE DEF HubInv, TypeOK
<1>1. /\ Joinable' = Joinable /\ answer'[i] = None /\ call'[i] \in {None, call[i]}
      /\ \A j \in Stream \ {i} : call'[j] = call[j] /\ answer'[j] = answer[j]
      /\ call[i] \in Call /\ call[i].by \in Client
  BY ClosedOK
<1>2. UNCHANGED <<pc, list>> /\ call[i] # None
      /\ \A c \in Client : server[c] \in Server => server'[c] \in Server
  BY DEF Closed, StreamsOK, Held
<1>3. \A j \in Stream : call'[j] # None =>
        /\ pc'[j] = "publish" /\ call'[j].of = "CreateRoom" => list'[j] \subseteq Joinable
        /\ answer'[j] # None =>
             /\ call'[j].of = "ListRooms" => answer'[j].list \subseteq Joinable
             /\ call'[j].of = "ListRoomMembers" => answer'[j].list \subseteq Client
  BY <1>1, <1>2 DEF ListsOK
<1>4. \A c \in Client : /\ shown'[c] \subseteq Joinable
                        /\ shown'[c] # {} => server'[c] \in Server
  <2>1. CASE shown' = shown BY <1>2, <2>1 DEF ListsOK
  <2>2. CASE /\ answer[i] # None /\ call[i].of = "ListRooms"
             /\ shown' = [shown EXCEPT ![call[i].by] = answer[i].list]
    <3>1. answer[i].list \subseteq Joinable /\ server[call[i].by] \in Server
      BY <1>2, <2>2 DEF ListsOK, StreamsOK
    <3>2. QED BY <1>1, <1>2, <2>2, <3>1 DEF ListsOK, ClientTypeOK
  <2>3. QED BY <2>1, <2>2
<1>5. shown' \in [Client -> SUBSET Room]
  <2>1. \A c \in Client : shown'[c] \subseteq Room BY <1>4 DEF Joinable
  <2>2. shown' = [c \in Client |-> shown'[c]] BY DEF ClientTypeOK
  <2>3. QED BY <2>1, <2>2
<1>6. QED BY <1>1, <1>3, <1>4, <1>5 DEF ListsOK

(* Lists of rooms, new servers, new rooms with their keys, errors.         *)
LEMMA QuietAnswersKeepInv ==
    ASSUME HubInv, NEW i \in Stream,
           ReadRooms(i) \/ ServerCreated(i) \/ RoomCreated(i) \/ ReadError(i)
    PROVE  HubInv'
<1> USE DEF HubInv, TypeOK
<1>1. /\ waiting[i] /\ StreamCloses(i) /\ UNCHANGED <<store, pc, list>>
      /\ UNCHANGED <<server, cur, known, listed, loops, inbox>>
      /\ IF call[i].of = "ListRooms" THEN ui' = ui ELSE Then(i, "idle")
      /\ \/ shown' = shown
         \/ /\ answer[i] # None /\ call[i].of = "ListRooms"
            /\ shown' = [shown EXCEPT ![call[i].by] = answer[i].list]
      /\ \/ auth' = auth
         \/ /\ answer[i] # None /\ ~answer[i].error /\ call[i].of = "CreateRoom"
            /\ auth' = [auth EXCEPT ![call[i].by] = @ \cup {call[i].room}]
  BY DEF ReadRooms, ServerCreated, RoomCreated, ReadError, Answered, session
<1>2. Closed(i) BY <1>1 DEF Closed
<1>3. /\ StoreTypeOK' /\ HomesOK' /\ StreamTypeOK' /\ StreamsOK' /\ CallsEnd /\ Used' = Used
      /\ call[i] \in Call /\ call[i].by \in Client
      /\ \A j \in Stream : answer'[j] \in {None, answer[j]}
  BY <1>2, ClosedOK
<1>4. UIOK' /\ MembersOK' /\ OwedOK' BY <1>1, <1>2, QuietAnswer
<1>5. ui' \in [Client -> {"idle", "call", "subscribe", "list"}]
  BY <1>1, <1>2, CallerGoesOn
<1>6. ListsOK' /\ shown' \in [Client -> SUBSET Room] BY <1>1, <1>2, AnswersKeepLists
<1>7. KeysOK' /\ auth' \in [Client -> SUBSET Room]
  <2>1. CASE auth' = auth
    BY <1>2, <2>1, AnswersKeepKeys DEF ClientTypeOK
  <2>2. CASE /\ answer[i] # None /\ ~answer[i].error /\ call[i].of = "CreateRoom"
             /\ auth' = [auth EXCEPT ![call[i].by] = @ \cup {call[i].room}]
    <3>1. Asks(i, "CreateRoom") /\ call[i].room \in Room
      BY <1>1, <2>2 DEF Asks, KeysOK, StreamsOK, Held
    <3>2. auth' \in [Client -> SUBSET Room] BY <1>3, <2>2, <3>1 DEF ClientTypeOK
    <3>3. \A j \in Stream : \A m : Asks(j, m)' => Asks(j, m) /\ call'[j] = call[j]
      BY <1>3 DEF CallsEnd, Asks
    <3>4. ASSUME NEW c \in Client, NEW r \in Room, Claims(c, r)' PROVE Claims(c, r)
      <4>1. r \in auth'[c] => r \in auth[c] \/ (c = call[i].by /\ r = call[i].room)
        BY <1>3, <2>2 DEF ClientTypeOK
      <4>2. QED BY <3>1, <3>3, <3>4, <4>1 DEF Claims
    <3>5. \A j \in Stream : (Asks(j, "CreateRoom") /\ answer[j] # None)' =>
                               answer'[j].error \/ call'[j].room \in Room
      BY <1>3, <3>3 DEF KeysOK
    <3>6. KeysOK' BY <1>3, <3>4, <3>5 DEF KeysOK
    <3>7. QED BY <3>2, <3>6
  <2>3. QED BY <1>1, <2>1, <2>2
<1>8. ClientTypeOK' BY <1>1, <1>5, <1>6, <1>7 DEF ClientTypeOK
<1>9. QED BY <1>3, <1>4, <1>6, <1>7, <1>8

(* Nobody is on the way into a room while it joins another server.         *)
LEMMA ServerJoinedKeepsInv ==
    ASSUME HubInv, NEW i \in Stream, ServerJoined(i)
    PROVE  HubInv'
<1> USE DEF HubInv, TypeOK
<1>1. /\ waiting[i] /\ StreamCloses(i) /\ UNCHANGED <<store, pc, list>>
      /\ call[i].of = "JoinServer" /\ Then(i, "idle")
      /\ server' = [server EXCEPT ![call[i].by] = call[i].server]
      /\ UNCHANGED <<shown, cur, known, listed, loops, inbox, auth>>
  BY DEF ServerJoined, Answered
<1>2. call[i] \in Call /\ call[i].by \in Client /\ call[i].server \in Server
  BY <1>1 DEF StreamsOK, Held, StreamTypeOK, Call
<1>3. /\ server' \in [Client -> Id(Server)]
      /\ \A c \in Client : server'[c] = IF c = call[i].by THEN call[i].server ELSE server[c]
  BY <1>1, <1>2 DEF ClientTypeOK, Id
<1>4. Closed(i) BY <1>1, <1>2, <1>3 DEF Closed
<1>5. /\ StoreTypeOK' /\ HomesOK' /\ StreamTypeOK' /\ StreamsOK' /\ CallsEnd
      /\ ~waiting'[i] /\ answer'[i] = None /\ call'[i] \in {None, call[i]}
      /\ pc[i] # "off" => call'[i] = call[i]
      /\ \A j \in Stream \ {i} : /\ waiting'[j] = waiting[j] /\ call'[j] = call[j]
                                 /\ answer'[j] = answer[j]
  BY <1>4, ClosedOK
<1>6. /\ ui' \in [Client -> {"idle", "call", "subscribe", "list"}]
      /\ \A j \in Stream, c \in Client :
           UICalls(j, c)' => UICalls(j, c) /\ ui'[c] = "call" /\ call'[j] = call[j]
      /\ \A j \in Stream, c \in Client : c = call[i].by => ~UICalls(j, c)'
      /\ \A c \in Client : ui'[c] \in {"subscribe", "list"} => ui[c] = ui'[c]
  BY <1>1, <1>4, CallerGoesOn
<1>7. UICalls(i, call[i].by) /\ ui[call[i].by] = "call"
  BY <1>1, <1>2 DEF UICalls, UIOK, StreamsOK, Held
<1>8. ListsOK' BY <1>1, <1>4, AnswersKeepLists
<1>9. KeysOK' BY <1>1, <1>4, AnswersKeepKeys
<1>10. ClientTypeOK' BY <1>1, <1>3, <1>6 DEF ClientTypeOK
<1>11. UIOK'
  <2>1. \A j \in Stream : \A m : (waiting[j] /\ Asks(j, m))' =>
                               waiting[j] /\ Asks(j, m) /\ call'[j] = call[j]
    BY <1>5 DEF Asks
  <2>2. ASSUME NEW j \in Stream, waiting'[j], Asks(j, "JoinRoom")'
        PROVE  server'[call'[j].by] = ServerOf[call'[j].room]
    <3>1. call'[j].by \in Client BY <1>5, <2>2 DEF StreamTypeOK, Call, Asks
    <3>2. call'[j].by # call[i].by BY <1>6, <2>2, <3>1 DEF UICalls, Asks
    <3>3. QED BY <1>3, <2>1, <2>2, <3>1, <3>2 DEF UIOK
  <2>3. \A c \in Client : ui'[c] \in {"subscribe", "list"} =>
          server'[c] = server[c] /\ ui[c] = ui'[c]
    BY <1>3, <1>6, <1>7
  <2>4. QED BY <1>1, <1>6, <2>1, <2>2, <2>3 DEF UIOK
<1>12. MembersOK' /\ OwedOK'
  <2>1. \A l \in loops : \A d : Reached(l, d) => Reached(l, d)'
    <3>1. \A j \in Stream : \A l, d : Tells(j, l, d) => Tells(j, l, d)'
      BY <1>1, <1>5 DEF Tells, Asks, Key
    <3>2. QED BY <1>1, <3>1, ReachedStays DEF store
  <2>2. \A l \in loops : l = Here(l[1])' => l = Here(l[1]) BY <1>1 DEF Here
  <2>3. \A j \in Stream : pc'[j] = pc[j] /\ list'[j] = list[j] /\ answer'[j] \in {None, answer[j]}
    BY <1>1, <1>5
  <2>4. UNCHANGED <<members, loops, listed>> BY <1>1 DEF store
  <2>5. QED BY <1>5, <2>1, <2>2, <2>3, <2>4, MembersHold
<1>13. QED BY <1>5, <1>8, <1>9, <1>10, <1>11, <1>12

(* A client that has joined is in its room, with no list asked for.        *)
LEMMA RoomJoinedKeepsInv ==
    ASSUME HubInv, NEW i \in Stream, RoomJoined(i)
    PROVE  HubInv'
<1> USE DEF HubInv, TypeOK
<1> DEFINE by == call[i].by
<1>1. /\ waiting[i] /\ StreamCloses(i) /\ UNCHANGED <<store, pc, list>>
      /\ call[i].of = "JoinRoom" /\ Then(i, "subscribe")
      /\ cur' = [cur EXCEPT ![by] = call[i].room]
      /\ listed' = [listed EXCEPT ![by] = FALSE]
      /\ UNCHANGED <<server, shown, known, loops, inbox, auth>>
  BY DEF RoomJoined, Answered
<1>2. /\ call[i] \in Call /\ by \in Client /\ call[i].room \in Room
      /\ Asks(i, "JoinRoom") /\ server[by] = ServerOf[call[i].room]
  BY <1>1 DEF StreamsOK, Held, StreamTypeOK, Call, Asks, UIOK
<1>3. /\ cur' \in [Client -> Id(Room)] /\ cur'[by] = call[i].room
      /\ listed' \in [Client -> BOOLEAN] /\ ~listed'[by]
      /\ \A c \in Client \ {by} : cur'[c] = cur[c] /\ listed'[c] = listed[c]
  BY <1>1, <1>2 DEF ClientTypeOK, Id
<1>4. Closed(i) BY <1>1 DEF Closed
<1>5. /\ StoreTypeOK' /\ HomesOK' /\ StreamTypeOK' /\ StreamsOK' /\ CallsEnd
      /\ ~waiting'[i] /\ answer'[i] = None /\ call'[i] \in {None, call[i]}
      /\ pc[i] # "off" => call'[i] = call[i]
      /\ \A j \in Stream \ {i} : /\ waiting'[j] = waiting[j] /\ call'[j] = call[j]
                                 /\ answer'[j] = answer[j]
  BY <1>4, ClosedOK
<1>6. /\ ui' \in [Client -> {"idle", "call", "subscribe", "list"}]
      /\ \A j \in Stream, c \in Client :
           UICalls(j, c)' => UICalls(j, c) /\ ui'[c] = "call" /\ call'[j] = call[j]
      /\ \A j \in Stream, c \in Client : c = by => ~UICalls(j, c)'
      /\ \A c \in Client : ui'[c] \in {"subscribe", "list"} => ui[c] = ui'[c] \/ c = by
  BY <1>1, <1>2, <1>4, CallerGoesOn
<1>7. ListsOK' BY <1>1, <1>4, AnswersKeepLists
<1>8. KeysOK' BY <1>1, <1>4, AnswersKeepKeys
<1>9. ClientTypeOK' BY <1>1, <1>3, <1>6 DEF ClientTypeOK
<1>10. ASSUME NEW j \in Stream, waiting'[j], Asks(j, "ListRoomMembers")'
       PROVE  /\ waiting[j] /\ Asks(j, "ListRoomMembers") /\ call'[j] = call[j]
              /\ call[j].by \in Client \ {by}
  <2>1. waiting[j] /\ Asks(j, "ListRoomMembers") /\ call'[j] = call[j]
    BY <1>5, <1>10 DEF Asks
  <2>2. call[j].by \in Client BY <2>1 DEF StreamTypeOK, Call, Asks
  <2>3. UICalls(j, call[j].by)' BY <1>10, <2>1 DEF UICalls, Asks
  <2>4. QED BY <1>6, <2>1, <2>2, <2>3
<1>11. UIOK'
  <2>1. \A j \in Stream : (waiting[j] /\ Asks(j, "ListRoomMembers"))' =>
          call'[j].server = ServerOf[call'[j].room] /\ call'[j].room = cur'[call'[j].by]
    BY <1>1, <1>3, <1>10 DEF UIOK
  <2>2. \A j \in Stream : (waiting[j] /\ Asks(j, "JoinRoom"))' =>
                             server'[call'[j].by] = ServerOf[call'[j].room]
    BY <1>1, <1>5 DEF UIOK, Asks
  <2>3. \A c \in Client : ui'[c] \in {"subscribe", "list"} =>
          cur'[c] \in Room /\ server'[c] = ServerOf[cur'[c]] /\ ~listed'[c]
    BY <1>1, <1>2, <1>3, <1>6 DEF UIOK
  <2>4. QED BY <1>1, <1>6, <2>1, <2>2, <2>3 DEF UIOK
<1>12. MembersOK' /\ OwedOK'
  <2>1. ASSUME NEW l \in loops, l[1] # by, NEW d, Reached(l, d) PROVE Reached(l, d)'
    <3>1. \A j \in Stream : Tells(j, l, d) => Tells(j, l, d)'
      BY <1>1, <1>5 DEF Tells, Asks, Key
    <3>2. l[1] \in Client BY DEF ClientTypeOK, Loop
    <3>3. QED BY <1>1, <1>3, <2>1, <3>1, <3>2, ReachedStays DEF store
  <2>2. ASSUME NEW l \in loops, l = Here(l[1])', l[1] # by
        PROVE  l = Here(l[1]) /\ (listed'[l[1]] => listed[l[1]])
    <3>1. l[1] \in Client BY DEF ClientTypeOK, Loop
    <3>2. QED BY <1>1, <1>3, <2>2, <3>1 DEF Here
  <2>3. \A j \in Stream : ~(waiting'[j] /\ Asks(j, "ListRoomMembers")' /\ call'[j].by = by)
    BY <1>10
  <2>4. \A j \in Stream : pc'[j] = pc[j] /\ list'[j] = list[j] /\ answer'[j] \in {None, answer[j]}
    BY <1>1, <1>5
  <2>5. UNCHANGED <<members, loops>> BY <1>1 DEF store
  <2> HIDE DEF by
  <2>6. QED BY <1>3, <1>5, <2>1, <2>2, <2>3, <2>4, <2>5, MembersHold
<1>13. QED BY <1>5, <1>7, <1>8, <1>9, <1>11, <1>12

(* A client that reads its list knows who was owed to it.                  *)
LEMMA ReadMembersKeepsInv ==
    ASSUME HubInv, NEW i \in Stream, ReadMembers(i)
    PROVE  HubInv'
<1> USE DEF HubInv, TypeOK
<1> DEFINE by == call[i].by
<1>1. /\ waiting[i] /\ StreamCloses(i) /\ UNCHANGED <<store, pc, list>>
      /\ answer[i] # None /\ ~answer[i].error
      /\ call[i].of = "ListRoomMembers" /\ Then(i, "idle")
      /\ known' = [known EXCEPT ![by][cur[by]] = @ \cup (answer[i].list \ {by})]
      /\ listed' = [listed EXCEPT ![by] = TRUE]
      /\ UNCHANGED <<server, shown, cur, loops, inbox, auth>>
  BY DEF ReadMembers, Answered, AddKnown
<1>2. /\ call[i] \in Call /\ by \in Client /\ call[i].room \in Room
      /\ Asks(i, "ListRoomMembers") /\ cur[by] = call[i].room
      /\ answer[i].list \subseteq Client
  BY <1>1 DEF StreamsOK, Held, StreamTypeOK, Call, Asks, UIOK, ListsOK
<1>3. /\ known' \in [Client -> [Room -> SUBSET Client]]
      /\ known'[by][cur[by]] = known[by][cur[by]] \cup (answer[i].list \ {by})
      /\ \A c \in Client, r \in Room : known[c][r] \subseteq known'[c][r]
      /\ \A c \in Client \ {by} : known'[c] = known[c] /\ listed'[c] = listed[c]
      /\ listed' \in [Client -> BOOLEAN]
  BY <1>1, <1>2 DEF ClientTypeOK
<1>4. Closed(i) BY <1>1 DEF Closed
<1>5. /\ StoreTypeOK' /\ HomesOK' /\ StreamTypeOK' /\ StreamsOK' /\ CallsEnd
      /\ ~waiting'[i] /\ answer'[i] = None /\ call'[i] \in {None, call[i]}
      /\ pc[i] # "off" => call'[i] = call[i]
      /\ \A j \in Stream \ {i} : /\ waiting'[j] = waiting[j] /\ call'[j] = call[j]
                                 /\ answer'[j] = answer[j]
  BY <1>4, ClosedOK
<1>6. /\ ui' \in [Client -> {"idle", "call", "subscribe", "list"}]
      /\ \A j \in Stream, c \in Client :
           UICalls(j, c)' => UICalls(j, c) /\ ui'[c] = "call" /\ call'[j] = call[j]
      /\ \A j \in Stream, c \in Client : c = by => ~UICalls(j, c)'
      /\ \A c \in Client : ui'[c] \in {"subscribe", "list"} => ui[c] = ui'[c]
  BY <1>1, <1>2, <1>4, CallerGoesOn
<1>7. ListsOK' BY <1>1, <1>4, AnswersKeepLists
<1>8. KeysOK' BY <1>1, <1>4, AnswersKeepKeys
<1>9. ClientTypeOK' BY <1>1, <1>3, <1>6 DEF ClientTypeOK
<1>10. \A j \in Stream : \A m : (waiting[j] /\ Asks(j, m))' =>
                               waiting[j] /\ Asks(j, m) /\ call'[j] = call[j]
  BY <1>5 DEF Asks
<1>11. UICalls(i, by) /\ ui[by] = "call" BY <1>1, <1>2 DEF UICalls, Asks, UIOK
<1>12. UIOK'
  <2>1. \A c \in Client : ui'[c] \in {"subscribe", "list"} => c # by
    BY <1>6, <1>11
  <2>2. QED BY <1>1, <1>3, <1>6, <1>10, <2>1 DEF UIOK
<1>13. \A j \in Stream : ~(waiting'[j] /\ Asks(j, "ListRoomMembers")' /\ call'[j].by = by)
  <2>1. \A j \in Stream, c \in Client :
          waiting'[j] /\ Asks(j, "ListRoomMembers")' /\ call'[j].by = c => UICalls(j, c)'
    BY DEF UICalls, Asks
  <2>2. QED BY <1>2, <1>6, <2>1
<1>14. ASSUME NEW l \in loops, l = Here(l[1]), NEW d, Reached(l, d) PROVE Reached(l, d)'
  <2>1. \A j \in Stream : Tells(j, l, d) => Tells(j, l, d)'
    BY <1>1, <1>5 DEF Tells, Asks, Key
  <2>2. l[1] \in Client /\ cur[l[1]] \in Room BY <1>14 DEF ClientTypeOK, Loop, Here
  <2>3. QED BY <1>1, <1>3, <1>14, <2>1, <2>2, ReachedStays DEF store
<1>15. ASSUME NEW l \in loops, l = Here(l[1]), l[1] = by,
              NEW d \in members[<<l[2], l[3]>>] \ {l[1]}
       PROVE  Reached(l, d)'
  <2>1. d \in answer[i].list \/ Reached(l, d) BY <1>1, <1>2, <1>15 DEF OwedOK
  <2>2. d \in answer[i].list => Reached(l, d)' BY <1>1, <1>3, <1>15 DEF Reached
  <2>3. QED BY <1>14, <1>15, <2>1, <2>2
<1>16. MembersOK' /\ OwedOK'
  <2>1. \A l \in loops : l = Here(l[1])' => l = Here(l[1]) /\ l[1] \in Client
    BY <1>1 DEF Here, ClientTypeOK, Loop
  <2>2. \A j \in Stream : pc'[j] = pc[j] /\ list'[j] = list[j] /\ answer'[j] \in {None, answer[j]}
    BY <1>1, <1>5
  <2>3. UNCHANGED <<members, loops>> BY <1>1 DEF store
  <2> HIDE DEF by
  <2>4. QED BY <1>3, <1>5, <1>13, <1>14, <1>15, <2>1, <2>2, <2>3, MembersHold
<1>17. QED BY <1>5, <1>7, <1>8, <1>9, <1>12, <1>16

-----------------------------------------------------------------------------
(* A goroutine that starts is owed nothing yet: its client has still to    *)
(* ask for the list.                                                       *)
LEMMA SubscribeKeepsInv ==
    ASSUME HubInv, NEW c \in Client, Subscribe(c)
    PROVE  HubInv'
<1> USE DEF HubInv, TypeOK
<1>1. /\ ui[c] = "subscribe" /\ ui' = [ui EXCEPT ![c] = "list"]
      /\ loops' = loops \cup {<<c, server[c], cur[c]>>}
      /\ untold' = { u \in untold : u[1] # <<c, server[c], cur[c]>> }
      /\ UNCHANGED <<servers, rooms, members, retired, heard, streams, session, inbox, auth>>
  BY DEF Subscribe
<1>2. /\ UNCHANGED <<servers, rooms, members, retired, heard>>
      /\ UNCHANGED <<pc, call, list, answer, waiting>>
      /\ UNCHANGED <<server, shown, cur, known, listed, inbox, auth>>
  BY <1>1 DEF streams, session
<1>3. /\ cur[c] \in Room /\ server[c] = ServerOf[cur[c]] /\ ~listed[c]
      /\ server[c] \in Server
  BY <1>1, HubAssumption DEF UIOK
<1>4. StoreTypeOK' BY <1>1, <1>2 DEF StoreTypeOK
<1>5. StreamTypeOK' BY <1>2 DEF StreamTypeOK
<1>6. loops' \subseteq Loop BY <1>1, <1>3 DEF ClientTypeOK, Loop
<1>7. ClientTypeOK' BY <1>1, <1>2, <1>6 DEF ClientTypeOK
<1>8. StreamsOK' BY <1>2 DEF StreamsOK, Held
<1>9. Joinable' = Joinable /\ Used' = Used /\ HomesOK' /\ CallsEnd
  BY <1>2 DEF Joinable, Used, HomesOK, CallsEnd
<1>10. ListsOK' BY <1>2, <1>9 DEF ListsOK
<1>11. KeysOK' BY <1>2, <1>9, KeysStay
<1>12. \A j \in Stream : ~UICalls(j, c) BY <1>1 DEF UIOK
<1>13. \A d \in Client : ui'[d] = IF d = c THEN "list" ELSE ui[d]
  BY <1>1 DEF ClientTypeOK
<1>14. UIOK'
  <2>1. \A j \in Stream, d \in Client : UICalls(j, d)' <=> UICalls(j, d)
    BY <1>2 DEF UICalls
  <2>2. \A j \in Stream : \A m : Asks(j, m)' <=> Asks(j, m) BY <1>2 DEF Asks
  <2>3. \A j \in Stream, d \in Client : UICalls(j, d)' => ui'[d] = "call"
    BY <1>12, <1>13, <2>1 DEF UIOK
  <2>4. \A l \in loops' : l[2] = ServerOf[l[3]] BY <1>1, <1>3 DEF UIOK
  <2>5. QED BY <1>2, <1>3, <1>13, <2>1, <2>2, <2>3, <2>4 DEF UIOK
<1>15. MembersOK' /\ OwedOK'
  <2>1. ASSUME NEW l \in loops, NEW d, l[1] # c, Reached(l, d) PROVE Reached(l, d)'
    BY <1>1, <1>2, <2>1 DEF Reached, Told, Key
  <2>2. \A l \in loops' : l = Here(l[1])' => l = Here(l[1]) /\ (l \in loops \/ l[1] = c)
    BY <1>1, <1>2 DEF Here
  <2>3. \A j \in Stream : ~(waiting'[j] /\ Asks(j, "ListRoomMembers")' /\ call'[j].by = c)
    BY <1>2, <1>12 DEF UICalls, Asks
  <2>4. QED BY <1>2, <1>3, <1>9, <2>1, <2>2, <2>3, MembersHold
<1>16. QED BY <1>4, <1>5, <1>7, <1>8, <1>9, <1>10, <1>11, <1>14, <1>15

(* What the hub hears of is between it and its topics.                     *)
LEMMA AnnouncedKeepsInv ==
    ASSUME HubInv, NEW l \in loops, Announced(l)
    PROVE  HubInv'
<1> USE DEF HubInv, TypeOK
<1>1. /\ heard' = heard \cup {l}
      /\ UNCHANGED <<servers, rooms, members, retired, untold>>
      /\ UNCHANGED <<pc, call, list, answer, waiting>>
      /\ UNCHANGED <<ui, server, shown, cur, known, listed, loops, inbox, auth>>
  BY DEF Announced, streams, clients, session
<1>2. StoreTypeOK' BY <1>1 DEF StoreTypeOK, ClientTypeOK
<1>3. StreamTypeOK' BY <1>1 DEF StreamTypeOK
<1>4. ClientTypeOK' BY <1>1 DEF ClientTypeOK
<1>5. StreamsOK' BY <1>1 DEF StreamsOK, Held
<1>6. Joinable' = Joinable /\ Used' = Used /\ HomesOK' /\ CallsEnd
  BY <1>1 DEF Joinable, Used, HomesOK, CallsEnd
<1>7. ListsOK' BY <1>1, <1>6 DEF ListsOK
<1>8. KeysOK' BY <1>1, <1>6, KeysStay
<1>9. UIOK' BY <1>1, <1>6, UIStays
<1>10. \A k \in loops, d \in Client : Reached(k, d) => Reached(k, d)'
  BY <1>1 DEF Reached, Told, Key
<1>11. \A k \in loops : members[<<k[2], k[3]>>] \subseteq Client
  BY DEF StoreTypeOK, ClientTypeOK, Loop
<1>12. MembersOK' /\ OwedOK' BY <1>1, <1>6, <1>10, <1>11, MembersStay
<1>13. QED BY <1>2, <1>3, <1>4, <1>5, <1>6, <1>7, <1>8, <1>9, <1>12

(* Goroutines that add whom they are told of, or end.                      *)
LEMMA RefreshKeepsInv ==
    ASSUME HubInv, UNCHANGED <<store, streams, ui, server, shown, cur, listed, auth>>,
           known' \in [Client -> [Room -> SUBSET Client]],
           \A c \in Client, r \in Room : known[c][r] \subseteq known'[c][r],
           loops' \subseteq loops, inbox' \subseteq inbox,
           \A l \in loops', m \in inbox : l = Here(l[1]) /\ m.loop = l =>
               m \in inbox' \/ m.list \ {l[1]} \subseteq known'[l[1]][cur[l[1]]]
    PROVE  HubInv'
<1> USE DEF HubInv, TypeOK
<1>1. /\ UNCHANGED <<servers, rooms, members, retired, heard, untold>>
      /\ UNCHANGED <<pc, call, list, answer, waiting>>
      /\ UNCHANGED <<ui, server, shown, cur, listed, auth>>
  BY DEF store, streams
<1>2. StoreTypeOK' BY <1>1 DEF StoreTypeOK
<1>3. StreamTypeOK' BY <1>1 DEF StreamTypeOK
<1>4. ClientTypeOK' BY <1>1 DEF ClientTypeOK
<1>5. StreamsOK' BY <1>1 DEF StreamsOK, Held
<1>6. Joinable' = Joinable /\ Used' = Used /\ HomesOK' /\ CallsEnd
  BY <1>1 DEF Joinable, Used, HomesOK, CallsEnd
<1>7. ListsOK' BY <1>1, <1>6 DEF ListsOK
<1>8. KeysOK' BY <1>1, <1>6, KeysStay
<1>9. UIOK' BY <1>1, <1>6, UIStays
<1>10. ASSUME NEW l \in loops', l = Here(l[1]), NEW d, d # l[1], Reached(l, d)
       PROVE  Reached(l, d)'
  <2>1. l[1] \in Client /\ cur[l[1]] \in Room BY <1>10 DEF ClientTypeOK, Loop, Here
  <2>2. CASE d \in known[l[1]][cur[l[1]]] BY <1>1, <2>1, <2>2 DEF Reached
  <2>3. ASSUME NEW m \in inbox, m.loop = l, d \in m.list PROVE Reached(l, d)'
    <3>1. m \in inbox' \/ d \in known'[l[1]][cur[l[1]]] BY <1>10, <2>3
    <3>2. QED BY <1>1, <2>3, <3>1 DEF Reached, Told
  <2>4. QED BY <1>1, <1>10, <2>2, <2>3 DEF Reached, Told, Key
<1>11. MembersOK' /\ OwedOK'
  <2>1. \A l \in loops' : l = Here(l[1])' => l = Here(l[1]) BY <1>1 DEF Here
  <2>2. QED BY <1>1, <1>6, <1>10, <2>1, MembersHold
<1>12. QED BY <1>2, <1>3, <1>4, <1>5, <1>6, <1>7, <1>8, <1>9, <1>11

(* Some of a list are added to those a client knows in its room.           *)
LEMMA KnownGrows ==
    ASSUME ClientTypeOK, NEW c \in Client, NEW l \in SUBSET Client, AddKnown(c, l)
    PROVE  /\ known' \in [Client -> [Room -> SUBSET Client]]
           /\ \A d \in Client, r \in Room : known[d][r] \subseteq known'[d][r]
           /\ cur[c] \in Room => l \ {c} \subseteq known'[c][cur[c]]
<1>1. known \in [Client -> [Room -> SUBSET Client]] BY DEF ClientTypeOK
<1>2. known'[c] = [known[c] EXCEPT ![cur[c]] = @ \cup (l \ {c})]
  BY <1>1 DEF AddKnown
<1>3. \A d \in Client \ {c} : known'[d] = known[d] BY <1>1 DEF AddKnown
<1>4. \A r \in Room : known'[c][r] = IF r = cur[c] THEN known[c][r] \cup (l \ {c})
                                                   ELSE known[c][r]
  BY <1>1, <1>2
<1>5. known'[c] \in [Room -> SUBSET Client]
  <2>1. known[c] \in [Room -> SUBSET Client] BY <1>1
  <2>2. \A r \in Room : known'[c][r] \subseteq Client BY <1>4, <2>1
  <2>3. known'[c] = [r \in Room |-> known'[c][r]] BY <1>2, <2>1
  <2>4. QED BY <2>2, <2>3
<1>6. known' \in [Client -> [Room -> SUBSET Client]]
  BY <1>1, <1>3, <1>5 DEF AddKnown
<1>7. QED BY <1>3, <1>4, <1>6

LEMMA RefreshesKeepInv ==
    ASSUME HubInv, NEW m \in inbox, RefreshMembers(m) \/ RefreshFails(m) \/ RefreshRelayed(m)
    PROVE  HubInv'
<1> USE DEF HubInv, TypeOK
<1>1. m.loop \in Loop /\ m.loop[1] \in Client /\ m.list \subseteq Client
  BY DEF ClientTypeOK, Loop
<1>2. CASE RefreshMembers(m)
  <2>1. /\ inbox' = inbox \ {m} /\ AddKnown(m.loop[1], m.list)
        /\ UNCHANGED <<store, streams, ui, server, shown, cur, listed, loops, auth>>
    BY <1>2 DEF RefreshMembers
  <2>2. /\ known' \in [Client -> [Room -> SUBSET Client]]
        /\ \A c \in Client, r \in Room : known[c][r] \subseteq known'[c][r]
        /\ cur[m.loop[1]] \in Room => m.list \ {m.loop[1]} \subseteq known'[m.loop[1]][cur[m.loop[1]]]
    BY <1>1, <2>1, KnownGrows
  <2>3. m.loop = Here(m.loop[1]) => cur[m.loop[1]] \in Room BY <1>1 DEF Loop, Here
  <2>4. QED BY <2>1, <2>2, <2>3, RefreshKeepsInv
<1>3. CASE RefreshFails(m)
  <2>1. PICK l \in SUBSET (m.list \ {m.loop[1]}) : AddKnown(m.loop[1], l)
    BY <1>3 DEF RefreshFails
  <2>2. /\ RefreshEnds(m.loop)
        /\ UNCHANGED <<store, streams, ui, server, shown, cur, listed, auth>>
    BY <1>3 DEF RefreshFails
  <2>3. /\ known' \in [Client -> [Room -> SUBSET Client]]
        /\ \A c \in Client, r \in Room : known[c][r] \subseteq known'[c][r]
    BY <1>1, <2>1, KnownGrows
  <2>4. QED BY <2>2, <2>3, RefreshKeepsInv DEF RefreshEnds
<1>4. CASE RefreshRelayed(m)
  <2>1. RefreshEnds(m.loop) /\ UNCHANGED <<store, streams, ui, session, auth>>
    BY <1>4 DEF RefreshRelayed
  <2>2. QED BY <2>1, RefreshKeepsInv DEF RefreshEnds, session, ClientTypeOK
<1>5. QED BY <1>2, <1>3, <1>4

-----------------------------------------------------------------------------
LEMMA NextHubInv == ASSUME HubInv, [Next]_vars PROVE HubInv'
<1>1. ASSUME NEW i \in Stream, NEW c \in Client, Calls(i, c) PROVE HubInv'
  BY <1>1, CallsKeepHubInv
<1>2. ASSUME NEW i \in Stream, HandleRPC(i) PROVE HubInv'
  BY <1>2, AddMemberKeepsInv, MembersListedKeepsInv, AdvertiseKeepsInv,
     PublishRoomsKeepsInv, PublishMembersKeepsInv, AdvertiseFailsKeepsInv
     DEF HandleRPC
<1>3. ASSUME NEW i \in Stream, ReadAnswer(i) PROVE HubInv'
  BY <1>3, QuietAnswersKeepInv, ServerJoinedKeepsInv, RoomJoinedKeepsInv,
     ReadMembersKeepsInv
     DEF ReadAnswer
<1>4. ASSUME NEW c \in Client, Subscribe(c) PROVE HubInv'
  BY <1>4, SubscribeKeepsInv
<1>5. ASSUME \/ \E c \in Client, r \in Room : JoinRoomPanics(c, r)
             \/ \E i, j \in Stream : MapRaces(i, j)
             \/ HubStops
      PROVE  HubInv'
  <2>1. HubEnds BY <1>5 DEF JoinRoomPanics, MapRaces, HubStops
  <2>2. QED BY <2>1, HubEndsKeepsInv
<1>6. ASSUME NEW m \in inbox, RefreshMembers(m) \/ RefreshFails(m) \/ RefreshRelayed(m)
      PROVE  HubInv'
  BY <1>6, RefreshesKeepInv
<1>7. ASSUME NEW l \in loops, Announced(l) PROVE HubInv'
  BY <1>7, AnnouncedKeepsInv
<1>8. ASSUME UNCHANGED vars PROVE HubInv'
  <2>1. UNCHANGED <<store, streams, ui, session, loops, inbox, auth>>
    BY <1>8 DEF vars, clients
  <2>2. known \in [Client -> [Room -> SUBSET Client]]
    BY DEF HubInv, TypeOK, ClientTypeOK
  <2>3. QED BY <2>1, <2>2, RefreshKeepsInv DEF session
<1>9. QED BY <1>1, <1>2, <1>3, <1>4, <1>5, <1>6, <1>7, <1>8 DEF Next, ListServers

(* The invariant, for every hub.                                           *)
THEOREM HubInvariant == Spec => []HubInv
<1>1. Init => HubInv BY InitHubInv
<1>2. HubInv /\ [Next]_vars => HubInv' BY NextHubInv
<1>3. QED BY <1>1, <1>2, PTL DEF Spec

(* Every variable keeps to its type.                                       *)
THEOREM HubTypes == Spec => []TypeOK
<1>1. HubInv => TypeOK BY DEF HubInv
<1>2. QED BY <1>1, HubInvariant, PTL

(* handlers.go:236-253 and server.go:350-372: a client that subscribed     *)
(* before it asked for the members misses only those whose own joining     *)
(* the hub's message did not tell it of.                                   *)
THEOREM HubMissesOnlyUntold == Spec => []NoMemberMissed
<1>1. ASSUME HubInv PROVE NoMemberMissed
  <2>1. \A l \in loops : l = <<l[1], server[l[1]], cur[l[1]]>> => l = Here(l[1])
    BY <1>1 DEF HubInv, UIOK, Here
  <2>2. QED BY <1>1, <2>1 DEF HubInv, MembersOK, NoMemberMissed, Reached
<1>2. QED BY <1>1, HubInvariant, PTL

(* server.go:259-288 and handlers.go:182-191: no two clients keep a key    *)
(* under one room's id.                                                    *)
THEOREM HubOneKeyPerRoom == Spec => []OneKeyPerRoom
<1>1. HubInv => OneKeyPerRoom
  BY DEF HubInv, TypeOK, ClientTypeOK, KeysOK, Claims, OneKeyPerRoom
<1>2. QED BY <1>1, HubInvariant, PTL

(* server.go:331-363 and 462-478: a room on a screen can be joined on the  *)
(* server it is of, unless the hub has started again.                      *)
THEOREM HubShownCanBeJoined == Spec => []ShownCanBeJoined
<1>1. HubInv => ShownCanBeJoined BY DEF HubInv, ListsOK, Joinable, ShownCanBeJoined
<1>2. QED BY <1>1, HubInvariant, PTL
=============================================================================
