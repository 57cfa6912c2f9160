-------------------------------- MODULE Hub --------------------------------
(***************************************************************************)
(* The hub and the clients that call it.  Every call comes in on a stream  *)
(* of its own and runs in a goroutine of its own; the store locks each of  *)
(* its operations but gives out pointers, so members are added and read    *)
(* outside its lock.  Calls that change something end by starting a        *)
(* goroutine that takes a snapshot and publishes it later.  The store is   *)
(* memory: a hub that ends, because it is stopped or because a handler     *)
(* panics, starts again with nothing, while clients keep their lists.      *)
(*                                                                         *)
(* A request is read here in one step; module HubEnv shows what happens    *)
(* when two are read at once.  The hub learns of a client's subscription   *)
(* on another stream than its calls, some time after it was made; what it  *)
(* publishes before that does not reach the client, and what it publishes  *)
(* after may be lost too.                                                  *)
(***************************************************************************)
EXTENDS Integers, FiniteSets

CONSTANTS
    Client, Server, Room,
    None,
    ServerOf,      \* the server each room's id is drawn for
    Visibility,    \* those in use, of "public", "password", "private"
    Stream,        \* bound: calls and advertisements under way at a time
    MaxInbox       \* bound: members messages on their way to clients; more are lost

ASSUME HubAssumption ==
    /\ None \notin Client \cup Server \cup Room \cup {"public", "password", "private"}
    /\ ServerOf \in [Room -> Server]
    /\ Visibility \subseteq {"public", "password", "private"}
    /\ MaxInbox \in Nat

VARIABLES
    (* the hub *)
    servers,       \* visibility of each stored server, None if there is none
    rooms,         \* visibility of each stored room of each server
    members,       \* each room's Members map
    retired,       \* ids given out by earlier runs: random, never drawn again
    heard,         \* subscriptions to members topics that it knows of
    untold,        \* whose joining a goroutine was not told of (history variable)
    pc,            \* where each stream's handler or the goroutine it started is
    call,          \* the request it serves
    list,          \* the snapshot it took
    answer,        \* the answer on the stream
    (* the clients *)
    waiting,       \* the caller has not read the answer
    ui,            \* each UI goroutine's place
    server,        \* Session.Current.Server
    shown,         \* rooms on the chat screen
    cur,           \* Session.Current.Room
    known,         \* RoomSession.Members of each room
    listed,        \* the last join got its list of members (history variable)
    loops,         \* running refreshMembersList goroutines
    inbox,         \* members messages on their way to them
    auth           \* the room_auth table: rooms whose key the client made

store == <<servers, rooms, members, retired, heard, untold>>
streams == <<pc, call, list, answer, waiting>>
session == <<server, shown, cur, known, listed>>
clients == <<ui, session, loops, inbox, auth>>
vars == <<store, streams, clients>>

Method == {"CreateServer", "ListRooms", "CreateRoom", "JoinServer",
           "JoinRoom", "ListRoomMembers"}
Place == {"off", "add", "listing", "advertise", "publish"}
Id(S) == S \cup {None}
Call == [by : Client, of : Method, server : Id(Server), room : Id(Room)]
Answer == [error : BOOLEAN, list : SUBSET (Client \cup Server \cup Room)]
Loop == Client \X Server \X Room

ASSUME NoneAssumption == None \notin Call /\ None \notin Answer

StoreTypeOK ==
    /\ servers \in [Server -> Visibility \cup {None}]
    /\ rooms \in [Server \X Room -> Visibility \cup {None}]
    /\ members \in [Server \X Room -> SUBSET Client]
    /\ retired \subseteq Server \cup Room
    /\ heard \subseteq Loop
    /\ untold \subseteq Loop \X Client

StreamTypeOK ==
    /\ pc \in [Stream -> Place]
    /\ call \in [Stream -> Call \cup {None}]
    /\ list \in [Stream -> SUBSET (Client \cup Server \cup Room)]
    /\ answer \in [Stream -> Answer \cup {None}]
    /\ waiting \in [Stream -> BOOLEAN]

ClientTypeOK ==
    /\ ui \in [Client -> {"idle", "call", "subscribe", "list"}]
    /\ server \in [Client -> Id(Server)]
    /\ shown \in [Client -> SUBSET Room]
    /\ cur \in [Client -> Id(Room)]
    /\ known \in [Client -> [Room -> SUBSET Client]]
    /\ listed \in [Client -> BOOLEAN]
    /\ loops \subseteq Loop
    /\ inbox \subseteq [loop : Loop, list : SUBSET Client]
    /\ auth \in [Client -> SUBSET Room]

TypeOK == StoreTypeOK /\ StreamTypeOK /\ ClientTypeOK

-----------------------------------------------------------------------------
Init ==
    /\ servers = [s \in Server |-> None]
    /\ rooms = [k \in Server \X Room |-> None]
    /\ members = [k \in Server \X Room |-> {}]
    /\ retired = {} /\ heard = {} /\ untold = {}
    /\ pc = [i \in Stream |-> "off"] /\ call = [i \in Stream |-> None]
    /\ list = [i \in Stream |-> {}] /\ answer = [i \in Stream |-> None]
    /\ waiting = [i \in Stream |-> FALSE]
    /\ ui = [c \in Client |-> "idle"]
    /\ server = [c \in Client |-> None]
    /\ shown = [c \in Client |-> {}] /\ cur = [c \in Client |-> None]
    /\ known = [c \in Client |-> [r \in Room |-> {}]]
    /\ listed = [c \in Client |-> FALSE]
    /\ loops = {} /\ inbox = {} /\ auth = [c \in Client |-> {}]

PublicServers == { s \in Server : servers[s] \in {"public", "password"} }
AllRooms(s) == { r \in Room : rooms[<<s, r>>] # None }   \* mutant: private ones are listed
PublicRooms(s) == { r \in Room : rooms[<<s, r>>] \in {"public", "password"} }

-----------------------------------------------------------------------------
(* A client opens a stream, sends a request (SendRPC), and the hub's       *)
(* handler for it takes its first step: nothing depends on the time from   *)
(* the one to the other.                                                   *)
Request(i, c, m, s, r, place, a) ==
    /\ pc[i] = "off" /\ ~waiting[i]
    /\ pc' = [pc EXCEPT ![i] = place]
    /\ call' = [call EXCEPT ![i] = [by |-> c, of |-> m, server |-> s, room |-> r]]
    /\ answer' = [answer EXCEPT ![i] = a]
    /\ waiting' = [waiting EXCEPT ![i] = TRUE]
    /\ UNCHANGED <<session, loops, inbox, auth>>

Listing(l) == [error |-> FALSE, list |-> l]
Success == Listing({})
Error == [error |-> TRUE, list |-> {}]

(* Looking at the servers changes nothing that is modelled.                *)
ListServers == UNCHANGED vars

(* A server that is not there gets no answer at all.                       *)
ListRooms(i, c) ==
    /\ server[c] # None
    /\ Request(i, c, "ListRooms", server[c], None, "off",
               IF servers[server[c]] = None THEN None ELSE Listing(PublicRooms(server[c])))
    /\ UNCHANGED <<store, list, ui>>

(* The UI goroutine makes its other calls one at a time.                   *)
UICall(c, from) == ui[c] = from /\ ui' = [ui EXCEPT ![c] = "call"]

(* The id is drawn until it is new (in a bounded model, while one is left),*)
(* and sent; the goroutine that advertises the servers changes nothing     *)
(* that is modelled.                                                       *)
CreateServer(i, c, v) ==
    /\ UICall(c, "idle")
    /\ \E s \in Server \ retired :
          /\ servers[s] = None
          /\ servers' = [servers EXCEPT ![s] = v]
          /\ Request(i, c, "CreateServer", s, None, "off", Success)
    /\ UNCHANGED <<rooms, members, retired, heard, untold, list>>

(* An id is 8 random bytes: no two servers draw the same.                  *)
RoomsOf(s) == { r \in Room : ServerOf[r] = s }

(* A goroutine advertises the rooms.                                       *)
AnyId(i, c, v) ==   \* mutant: the store does not look whether it has the id
    /\ UICall(c, "idle") /\ server[c] # None /\ servers[server[c]] # None
    /\ \E r \in RoomsOf(server[c]) \ retired :
          /\ rooms' = [rooms EXCEPT ![<<server[c], r>>] = v]
          /\ Request(i, c, "CreateRoom", server[c], r, "advertise", Success)
    /\ UNCHANGED <<servers, members, retired, heard, untold, list>>

CreateRoom(i, c, v) ==
    /\ UICall(c, "idle") /\ server[c] # None /\ servers[server[c]] # None
    /\ \E r \in RoomsOf(server[c]) \ retired :
          /\ rooms[<<server[c], r>>] = None
          /\ rooms' = [rooms EXCEPT ![<<server[c], r>>] = v]
          /\ Request(i, c, "CreateRoom", server[c], r, "advertise", Success)
    /\ UNCHANGED <<servers, members, retired, heard, untold, list>>

OnlyTheId(i, c) ==   \* mutant: the error is not sent before the id
    /\ UICall(c, "idle") /\ server[c] # None /\ servers[server[c]] = None
    /\ Request(i, c, "CreateRoom", server[c], None, "off", Success)
    /\ UNCHANGED <<store, list>>

(* Two answers are sent, of which a client reads the first; the goroutine  *)
(* that would advertise finds no server.                                   *)
CreateRoomFails(i, c) ==
    /\ UICall(c, "idle") /\ server[c] # None /\ servers[server[c]] = None
    /\ Request(i, c, "CreateRoom", server[c], None, "off", Error)
    /\ UNCHANGED <<store, list>>

(* The servers a client chooses from are not kept: they are among those    *)
(* listed now or by an earlier run of the hub.  A password may be right or *)
(* wrong.                                                                  *)
JoinServer(i, c, s) ==
    /\ UICall(c, "idle") /\ (s \in retired \/ s \in PublicServers)
    /\ \/ /\ servers[s] \in {"public", "password"}
          /\ Request(i, c, "JoinServer", s, None, "off", Success)
       \/ /\ servers[s] # "public"
          /\ Request(i, c, "JoinServer", s, None, "off", Error)
    /\ UNCHANGED <<store, list>>

Chosen(c, r) == UICall(c, "idle") /\ server[c] # None /\ r \in shown[c]

(* The answer is sent first, the member added after it.                    *)
JoinRoom(i, c, r) ==
    /\ Chosen(c, r) /\ rooms[<<server[c], r>>] \in {"public", "password"}
    /\ Request(i, c, "JoinRoom", server[c], r, "add", Success)
    /\ UNCHANGED <<store, list>>

(* A sender whose id is not its peer's is told the same, and not added: the *)
(* error is the second answer, which nobody reads.                         *)
SenderMismatch(i, c, r) ==
    /\ Chosen(c, r) /\ rooms[<<server[c], r>>] \in {"public", "password"}
    /\ Request(i, c, "JoinRoom", server[c], r, "off", Success)
    /\ UNCHANGED <<store, list>>

WrongPassword(i, c, r) ==
    /\ Chosen(c, r) /\ rooms[<<server[c], r>>] = "password"
    /\ Request(i, c, "JoinRoom", server[c], r, "off", Error)
    /\ UNCHANGED <<store, list>>

(* The map is iterated over without a lock...                              *)
ListRoomMembers(i, c) ==
    /\ UICall(c, "list") /\ rooms[<<server[c], cur[c]>>] # None
    /\ Request(i, c, "ListRoomMembers", server[c], cur[c], "listing", None)
    /\ list' = [list EXCEPT ![i] = members[<<server[c], cur[c]>>]]
    /\ UNCHANGED store

ListRoomMembersFails(i, c) ==
    /\ UICall(c, "list") /\ rooms[<<server[c], cur[c]>>] = None
    /\ Request(i, c, "ListRoomMembers", server[c], cur[c], "off", Error)
    /\ UNCHANGED <<store, list>>

-----------------------------------------------------------------------------
(* The rest of the hub's handlers.                                         *)
At(i, place) == pc[i] = place
Goto(i, place) == pc' = [pc EXCEPT ![i] = place]
Key(i) == <<call[i].server, call[i].room>>

Snapshotted(i) ==   \* mutant: the snapshot to advertise is taken before the member is added
    /\ At(i, "add") /\ Goto(i, "publish")
    /\ members' = [members EXCEPT ![Key(i)] = @ \cup {call[i].by}]
    /\ list' = [list EXCEPT ![i] = members[Key(i)]]
    /\ UNCHANGED <<servers, rooms, retired, heard, untold, call, answer,
                   waiting, clients>>

AddMember(i) ==
    /\ At(i, "add") /\ Goto(i, "advertise")
    /\ members' = [members EXCEPT ![Key(i)] = @ \cup {call[i].by}]
    /\ UNCHANGED <<servers, rooms, retired, heard, untold, call, list, answer,
                   waiting, clients>>

(* ...so that who is added meanwhile may be in the list or not, as long as *)
(* the runtime does not see the two at once (MapRaces).                    *)
Iterated(i) == { m \in SUBSET members[Key(i)] : list[i] \subseteq m }

MembersListed(i) ==
    /\ At(i, "listing") /\ Goto(i, "off")
    /\ \E m \in Iterated(i) : answer' = [answer EXCEPT ![i] = Listing(m)]
    /\ list' = [list EXCEPT ![i] = {}]
    /\ UNCHANGED <<store, call, waiting, clients>>

-----------------------------------------------------------------------------
(* The goroutines that advertise: a snapshot...                            *)
Snapshot(i) ==
    IF call[i].of = "CreateRoom" THEN PublicRooms(call[i].server) ELSE members[Key(i)]

Advertise(i) ==
    /\ At(i, "advertise") /\ Goto(i, "publish")
    /\ list' = [list EXCEPT ![i] = Snapshot(i)]
    /\ UNCHANGED <<store, call, answer, waiting, clients>>

GoroutineEnds(i) ==
    /\ Goto(i, "off")
    /\ list' = [list EXCEPT ![i] = {}]
    /\ call' = [call EXCEPT ![i] = IF waiting[i] THEN @ ELSE None]

(* ...and its publication, to any of those who may be looking at the list. *)
PublishRooms(i) ==
    /\ At(i, "publish") /\ call[i].of = "CreateRoom" /\ GoroutineEnds(i)
    /\ \E reached \in SUBSET { c \in Client : server[c] = call[i].server } :
          shown' = [c \in Client |-> IF c \in reached THEN list[i] ELSE shown[c]]
    /\ UNCHANGED <<store, answer, waiting, ui, server, cur, known,
                   listed, loops, inbox, auth>>

(* ...or that hear of who joined, among those the hub knows of; a message  *)
(* may be lost.                                                            *)
Watching(i) == { l \in loops : <<l[2], l[3]>> = Key(i) }
Missing(i) == { l \in Watching(i) : l[1] # call[i].by }
Untold(i, reached) ==
    untold' = untold \cup { <<l, call[i].by>> : l \in Missing(i) \ reached }

PublishMembers(i) ==
    /\ At(i, "publish") /\ call[i].of = "JoinRoom" /\ GoroutineEnds(i)
    /\ \E m \in Iterated(i), reached \in SUBSET (Watching(i) \cap heard) :
          /\ inbox' = inbox \cup { [loop |-> l, list |-> m] : l \in reached }
          /\ Cardinality(inbox') <= MaxInbox
          /\ Untold(i, reached)
    /\ UNCHANGED <<servers, rooms, members, retired, heard, answer, waiting, ui,
                   session, loops, auth>>

(* The topic cannot be joined, the list not encoded or not published.      *)
AdvertiseFails(i) ==
    /\ pc[i] \in {"advertise", "publish"} /\ GoroutineEnds(i)
    /\ IF call[i].of = "JoinRoom" THEN Untold(i, {}) ELSE UNCHANGED untold
    /\ UNCHANGED <<servers, rooms, members, retired, heard, answer, waiting, clients>>

(* The hub ends, and starts again with an empty store.                     *)
HubEnds ==
    /\ retired' = retired \cup { s \in Server : servers[s] # None }
                     \cup { r \in Room : \E s \in Server : rooms[<<s, r>>] # None }
    /\ servers' = [s \in Server |-> None]
    /\ rooms' = [k \in Server \X Room |-> None]
    /\ members' = [k \in Server \X Room |-> {}]
    /\ heard' = {} /\ untold' = {}
    /\ pc' = [i \in Stream |-> "off"]
    /\ list' = [i \in Stream |-> {}]
    /\ call' = [i \in Stream |-> IF waiting[i] THEN call[i] ELSE None]
    /\ UNCHANGED <<answer, waiting, clients>>

HubStops == HubEnds

(* The nil room of the error answer is dereferenced.                       *)
JoinRoomPanics(c, r) ==
    /\ ui[c] = "idle" /\ server[c] # None /\ r \in shown[c]
    /\ rooms[<<server[c], r>>] \in {None, "private"}
    /\ HubEnds

(* The runtime sees a map of members written while another handler writes  *)
(* it or iterates over it.                                                 *)
MapRaces(i, j) ==
    /\ i # j /\ At(i, "add") /\ pc[j] \in {"add", "listing", "publish"}
    /\ call[j].of # "CreateRoom" /\ Key(j) = Key(i)
    /\ HubEnds

-----------------------------------------------------------------------------
(* The caller reads its answer and closes the stream.                      *)
StreamCloses(i) ==
    /\ waiting' = [waiting EXCEPT ![i] = FALSE]
    /\ answer' = [answer EXCEPT ![i] = None]
    /\ call' = [call EXCEPT ![i] = IF pc[i] = "off" THEN None ELSE @]

Answered(i, m) ==
    /\ waiting[i] /\ answer[i] # None /\ ~answer[i].error /\ call[i].of = m
    /\ StreamCloses(i) /\ UNCHANGED <<store, pc, list>>

Then(i, place) == ui' = [ui EXCEPT ![call[i].by] = place]

ReadRooms(i) ==
    /\ Answered(i, "ListRooms")
    /\ shown' = [shown EXCEPT ![call[i].by] = answer[i].list]
    /\ UNCHANGED <<ui, server, cur, known, listed, loops, inbox, auth>>

ServerCreated(i) ==
    /\ Answered(i, "CreateServer") /\ Then(i, "idle")
    /\ UNCHANGED <<session, loops, inbox, auth>>

(* A key is made and saved under the id that was sent.                     *)
RoomCreated(i) ==
    /\ Answered(i, "CreateRoom") /\ Then(i, "idle")
    /\ auth' = [auth EXCEPT ![call[i].by] = @ \cup {call[i].room}]
    /\ UNCHANGED <<session, loops, inbox>>

(* The rooms on the screen stay until they are refreshed.                  *)
ServerJoined(i) ==
    /\ Answered(i, "JoinServer") /\ Then(i, "idle")
    /\ server' = [server EXCEPT ![call[i].by] = call[i].server]
    /\ UNCHANGED <<shown, cur, known, listed, loops, inbox, auth>>

RoomJoined(i) ==
    /\ Answered(i, "JoinRoom") /\ Then(i, "subscribe")
    /\ cur' = [cur EXCEPT ![call[i].by] = call[i].room]
    /\ listed' = [listed EXCEPT ![call[i].by] = FALSE]
    /\ UNCHANGED <<server, shown, known, loops, inbox, auth>>

(* JoinRoomHandler subscribes to the members topic, then asks for a list;  *)
(* that a topic has a subscriber is told to the hub in the background,     *)
(* once, and again when it has started again.  No subscription is ended.   *)
Subscribe(c) ==
    LET l == <<c, server[c], cur[c]>> IN
    /\ ui[c] = "subscribe" /\ ui' = [ui EXCEPT ![c] = "list"]
    /\ loops' = loops \cup {l}
    /\ untold' = { u \in untold : u[1] # l }
    /\ UNCHANGED <<servers, rooms, members, retired, heard, streams, session, inbox, auth>>

Announced(l) ==
    /\ l \in loops \ heard /\ heard' = heard \cup {l}
    /\ UNCHANGED <<servers, rooms, members, retired, untold, streams, clients>>

AddKnown(c, l) == known' = [known EXCEPT ![c][cur[c]] = @ \cup (l \ {c})]

ReadMembers(i) ==
    /\ Answered(i, "ListRoomMembers") /\ Then(i, "idle")
    /\ AddKnown(call[i].by, answer[i].list)
    /\ listed' = [listed EXCEPT ![call[i].by] = TRUE]
    /\ UNCHANGED <<server, shown, cur, loops, inbox, auth>>

(* An error answer, or a stream closed without one                         *)
ReadError(i) ==
    /\ waiting[i] /\ (IF answer[i] = None THEN pc[i] = "off" ELSE answer[i].error)
    /\ StreamCloses(i)
    /\ IF call[i].of \in {"ListRooms"} THEN UNCHANGED ui ELSE Then(i, "idle")
    /\ UNCHANGED <<store, pc, list, session, loops, inbox, auth>>

(* refreshMembersList adds those it does not know to the current room...   *)
RefreshMembers(m) ==
    /\ m \in inbox /\ inbox' = inbox \ {m}
    /\ AddKnown(m.loop[1], m.list)
    /\ UNCHANGED <<store, streams, ui, server, shown, cur, listed, loops, auth>>

RefreshEnds(l) ==
    /\ loops' = loops \ {l}
    /\ inbox' = { x \in inbox : x.loop # l }

(* ...and ends at the first it cannot connect to...                        *)
RefreshFails(m) ==
    LET c == m.loop[1]
        new == (m.list \ {c}) \ known[c][cur[c]]
    IN  /\ m \in inbox
        /\ \E l \in SUBSET new \ {{}} : AddKnown(c, l)
        /\ RefreshEnds(m.loop)
        /\ UNCHANGED <<store, streams, ui, server, shown, cur, listed, auth>>

(* ...or at the first message that another member passed on to it.         *)
RefreshRelayed(m) ==
    /\ m \in inbox /\ RefreshEnds(m.loop)
    /\ UNCHANGED <<store, streams, ui, session, auth>>

-----------------------------------------------------------------------------
Calls(i, c) ==
    \/ ListRooms(i, c)
    \/ \E v \in Visibility : CreateServer(i, c, v) \/ CreateRoom(i, c, v)
    \/ CreateRoomFails(i, c)
    \/ \E s \in Server : JoinServer(i, c, s)
    \/ \E r \in Room : JoinRoom(i, c, r) \/ SenderMismatch(i, c, r) \/ WrongPassword(i, c, r)
    \/ ListRoomMembers(i, c) \/ ListRoomMembersFails(i, c)

HandleRPC(i) ==
    \/ AddMember(i) \/ MembersListed(i)
    \/ Advertise(i) \/ PublishRooms(i) \/ PublishMembers(i) \/ AdvertiseFails(i)

ReadAnswer(i) ==
    \/ ReadRooms(i) \/ ServerCreated(i) \/ RoomCreated(i)
    \/ ServerJoined(i) \/ RoomJoined(i) \/ ReadMembers(i) \/ ReadError(i)

Next ==
    \/ \E i \in Stream, c \in Client : Calls(i, c)
    \/ \E i \in Stream : HandleRPC(i) \/ ReadAnswer(i)
    \/ \E c \in Client : Subscribe(c) \/ \E r \in Room : JoinRoomPanics(c, r)
    \/ \E m \in inbox : RefreshMembers(m) \/ RefreshFails(m) \/ RefreshRelayed(m)
    \/ \E l \in loops : Announced(l)
    \/ \E i, j \in Stream : MapRaces(i, j)
    \/ HubStops \/ ListServers

Spec == Init /\ [][Next]_vars

-----------------------------------------------------------------------------
(* handlers.go:236-253 and server.go:350-372: subscribing before it asks   *)
(* for the members leaves a client one way to miss somebody in its room    *)
(* while its refresh goroutine runs: the message of that member's own      *)
(* joining did not get to it, because it was lost, never published, or     *)
(* published before the hub had heard of the subscription.  Whoever is in  *)
(* the room otherwise it knows, or is about to be told of.                 *)
Told(l, d) ==
    \/ \E m \in inbox : m.loop = l /\ d \in m.list
    \/ \E i \in Stream :
          /\ call[i] # None /\ call[i].of = "JoinRoom" /\ call[i].by = d
          /\ Key(i) = <<l[2], l[3]>>
          /\ pc[i] = "advertise" \/ (pc[i] = "publish" /\ d \in list[i])

NoMemberMissed ==
    \A l \in loops : LET c == l[1] IN
        (l = <<c, server[c], cur[c]>> /\ listed[c]) =>
            \A d \in members[<<l[2], l[3]>>] \ {c} :
                d \in known[c][cur[c]] \/ Told(l, d) \/ <<l, d>> \in untold

(* server.go:259-288 and handlers.go:182-191: the id a creator saves its   *)
(* key under is its room's alone, also when ids collide, calls overlap or  *)
(* the hub ends in between; two keys for one room would split its chat.    *)
OneKeyPerRoom == \A c, d \in Client : c # d => auth[c] \cap auth[d] = {}

(* server.go:331-363 and 462-478: a room on a screen can be joined on the  *)
(* server it is of, however old the list is it came with, unless the hub   *)
(* has started again since: private rooms are in no list and a room is     *)
(* stored before anybody hears of it.  A client that has gone to another   *)
(* server meanwhile asks that one, which is how JoinRoomPanics happens     *)
(* without a restart.                                                      *)
ShownCanBeJoined ==
    \A c \in Client : \A r \in shown[c] :
        rooms[<<ServerOf[r], r>>] \in {"public", "password"} \/ r \in retired
=============================================================================
