------------------------------ MODULE Browsing ------------------------------
(***************************************************************************)
(* A client from its login to the rooms of a server: the lists of servers  *)
(* and rooms on the screen, the goroutines that fetch them and that follow *)
(* the hub's topics until the page is left, and the handlers of the browse *)
(* and chat pages that act on what is shown.  The hub is taken as far as a *)
(* client sees it; module Hub has its side.                                *)
(***************************************************************************)
EXTENDS Login

CONSTANTS
    Server, Room,
    NoServer, NoRoom,
    ServerOf,      \* the server each room belongs to
    Protected,     \* servers and rooms joined through a form, with a password
    Standing,      \* servers and rooms the hub has from the start
    MaxActs,       \* bound: what this user and others do once logged in
    MaxRoutines,   \* bound: goroutines at a time
    MaxFaults      \* bound: calls of the hub that fail

ASSUME BrowsingAssumption ==
    /\ ServerOf \in [Room -> Server]
    /\ Protected \subseteq Server \cup Room
    /\ "servers" \notin Server     \* the servers topic is no server's rooms topic
    /\ NoServer \notin Server /\ NoRoom \notin Room
    /\ Standing \subseteq Server \cup Room
    /\ \A r \in Standing \cap Room : ServerOf[r] \in Standing
    /\ MaxActs \in Nat /\ MaxRoutines \in Nat /\ MaxFaults \in Nat

VARIABLES
    servers, rooms,         \* what the hub's store holds; nothing here is private
    news,                   \* the hub's goroutines that advertise what was created
    hub,                    \* "up", or "down" after a handler's panic
    session,                \* Current.Server: its id, and the topic of its rooms
    room,                   \* Current.Room
    serverList, roomList,   \* what the two pages show
    chosen,                 \* selectedServer or selectedRoom of an open join form
    loaded,                 \* history: roomList was set since the server was joined
    acts, faults            \* how many so far

atHub == <<servers, rooms, news, hub>>
lists == <<serverList, roomList, chosen, loaded>>
bounds == <<acts, faults>>
browsing == <<session, room, lists>>
vars == <<screen, login, atHub, browsing, bounds>>

Follower == {"browse", "chat"}          \* StartAutoRefresh, StartRoomAutoRefresh
NoSession == [server |-> NoServer, topic |-> NoServer]
RoomsIn(s) == { r \in rooms : ServerOf[r] = s }
Announce(n) == news' = news \cup {[of |-> n, pc |-> "list", list |-> {}]}

TypeOK ==
    /\ LoginTypeOK
    /\ base \in {"login", "browse", "chat", "off"}
    /\ over \in Seq(Overlay)
    /\ IsInjective(over)
    /\ then \in {"stay", "browse", "login"}
    /\ joined \subseteq Server \cup {"servers"}
    /\ servers \subseteq Server /\ rooms \subseteq Room
    /\ \A a \in news : a.of \in servers \cup rooms /\ a.list \subseteq servers \cup rooms
    /\ session \in [server : Server \cup {NoServer}, topic : Server \cup {NoServer}]
    /\ room \in Room \cup {NoRoom}
    /\ serverList \subseteq servers /\ roomList \subseteq rooms
    /\ chosen \in Server \cup Room \cup {NoServer}

-----------------------------------------------------------------------------
Init ==
    /\ LoginInit
    /\ servers = Standing \cap Server /\ rooms = Standing \cap Room
    /\ news = {} /\ hub = "up"
    /\ session = NoSession /\ room = NoRoom
    /\ serverList = {} /\ roomList = {} /\ chosen = NoServer /\ loaded = FALSE
    /\ acts = 0 /\ faults = 0

SessionEnds ==
    /\ session' = NoSession /\ room' = NoRoom
    /\ serverList' = {} /\ roomList' = {} /\ chosen' = NoServer /\ loaded' = FALSE
    /\ UNCHANGED <<atHub, bounds>>

-----------------------------------------------------------------------------
(* What the user does on the two pages, and what fails.  A handler holds   *)
(* the UI goroutine until the hub has answered, so a call is one step:     *)
(* nothing it reads can change meanwhile.                                  *)
Act ==
    /\ acts < MaxActs /\ acts' = acts + 1 /\ UNCHANGED faults
    /\ Len(routines') <= MaxRoutines
Fault == faults < MaxFaults /\ faults' = faults + 1 /\ UNCHANGED acts

(* ESC on the chat page (ChatInputHandler).                                *)
Leave ==
    /\ base = "chat"
    /\ SwitchToPage("browse")
    /\ routines' = Append(routines, Go("browse"))
    /\ UNCHANGED <<hasty, login, atHub, browsing>>
    /\ Act

Opens(form) ==
    \/ base = "browse" /\ form = "createServer" /\ UNCHANGED chosen
    \/ base = "chat" /\ form = "createRoom" /\ UNCHANGED chosen
    \/ base = "browse" /\ form = "joinServer" /\ chosen' \in serverList \cap Protected
    \/ base = "chat" /\ form = "joinRoom" /\ chosen' \in roomList \cap Protected

Form == Overlay \ {"toast", "error"}

OpenForm(form) ==
    /\ Opens(form) /\ AddPage(form)
    /\ \A f \in Form : ~Visible(f)
    /\ hasty' = (hasty \/ (form = "joinRoom" /\ ~loaded))
    /\ UNCHANGED <<routines, login, atHub, session, room, serverList, roomList, loaded>>
    /\ Act

Cancel(form) ==
    /\ Visible(form) /\ RemovePage(form)
    /\ UNCHANGED <<routines, hasty, login, atHub, browsing, bounds>>

(* A handler that fails says so in a dialog, and a form stays open; a      *)
(* public server's failure is a toast.                                     *)
HandlerFails ==
    /\ \/ base \in Follower /\ ShowError("stay")
       \/ base = "browse" /\ AddPage("toast")
    /\ Fault
    /\ UNCHANGED <<routines, hasty, login, atHub, browsing>>

(* The id is shown in a toast, which a timer takes off like the user does  *)
(* (Dismiss), the one for a private entry too; the form is taken off.      *)
Toast(form) ==
    over' = Append(RemoveFirst(Without("toast"), form), "toast") /\ UNCHANGED <<base, then>>

CreateServer(s) ==
    /\ Visible("createServer") /\ hub = "up"
    /\ s \notin servers
    /\ servers' = servers \cup {s} /\ Announce(s)
    /\ Toast("createServer")
    /\ routines' = Append(routines, Go("servers"))
    /\ UNCHANGED <<hasty, login, rooms, hub, browsing>>
    /\ Act

CreateRoom(r) ==
    /\ Visible("createRoom") /\ hub = "up"
    /\ r \notin rooms /\ ServerOf[r] = session.server
    /\ rooms' = rooms \cup {r} /\ Announce(r)
    /\ Toast("createRoom")
    /\ routines' = Append(routines, Go("rooms"))
    /\ UNCHANGED <<hasty, login, servers, hub, browsing>>
    /\ Act

(* An entry is picked from its list, or its form is filled in; the form is *)
(* for the entry that was picked last, whatever its title says.            *)
Picks(entry, list) == entry \in list \ Protected
Fills(form, entry) == Visible(form) /\ chosen = entry
Selects(entry, form) == chosen' = IF Visible(form) THEN entry ELSE chosen

Rejoined(s) == [session EXCEPT !.server = s]   \* mutant: the session keeps its topic
NewServerSession(s) == [server |-> s, topic |-> NoServer]

JoinServer(s) ==
    /\ base = "browse" /\ hub = "up"
    /\ Picks(s, serverList) \/ Fills("joinServer", s)
    /\ Selects(s, "joinServer")
    /\ session' = NewServerSession(s)
    /\ SwitchToPage("chat")
    /\ hasty' = (hasty \/ Running({"chat", "rooms"}))
    /\ routines' = routines \o <<Go("chat"), Go("rooms")>>
    /\ loaded' = FALSE
    /\ UNCHANGED <<login, atHub, room, serverList, roomList>>
    /\ Act

(* The hub answers for a room of the server that is current; for any other *)
(* its handler dereferences the room it has not found (server.go:354).     *)
JoinRoom(r) ==
    /\ base = "chat" /\ hub = "up"
    /\ Picks(r, roomList) \/ Fills("joinRoom", r)
    /\ Selects(r, "joinRoom")
    /\ hasty' = (hasty \/ ~loaded)
    /\ IF r \in RoomsIn(session.server)
       THEN /\ room' = r
            /\ \/ Picks(r, roomList) /\ UNCHANGED <<base, over, then>>
               \/ Fills("joinRoom", r) /\ RemovePage("joinRoom")
            /\ routines' = Append(routines, Go("rooms"))
            /\ UNCHANGED hub
       ELSE /\ hub' = "down"
            /\ ShowError("stay")
            /\ UNCHANGED <<room, routines>>
    /\ UNCHANGED <<login, servers, rooms, news, session, serverList, roomList, loaded>>
    /\ Act

-----------------------------------------------------------------------------
Unreachable == (hub = "down" /\ UNCHANGED bounds) \/ Fault

(* refreshServerList, by itself or first in a follower; an error does not  *)
(* keep the follower from going on.                                        *)
AskServers(i) ==
    /\ routines[i].kind \in Follower \cup {"servers"} /\ routines[i].pc = "start"
    /\ \/ /\ hub = "up"
          /\ Becomes(i, [routines[i] EXCEPT !.pc = "answered", !.list = servers])
          /\ UNCHANGED bounds
       \/ Unreachable /\ Becomes(i, [routines[i] EXCEPT !.pc = "refused"])
    /\ UNCHANGED <<base, over, then, hasty, login, atHub, browsing>>

AfterServers(i) ==
    CASE routines[i].kind = "servers" -> Ends(i)
      [] routines[i].kind = "browse"  ->
            Becomes(i, [Go("browse") EXCEPT !.pc = "join", !.topic = "servers"])
      [] routines[i].kind = "chat"    -> Becomes(i, [Go("chat") EXCEPT !.pc = "has"])

UpdateServerList(i) ==
    /\ routines[i].kind \in Follower \cup {"servers"}
    /\ \/ /\ routines[i].pc = "answered"
          /\ serverList' = routines[i].list
          /\ UNCHANGED <<base, over, then>>
       \/ /\ routines[i].pc = "refused"
          /\ ShowError("login")
          /\ UNCHANGED serverList
    /\ AfterServers(i)
    /\ UNCHANGED <<hasty, login, atHub, session, room, roomList, chosen, loaded, bounds>>

(* refreshRoomList: the rooms of the server that is current when it starts,*)
(* shown under whichever is current when the UI gets to it.                *)
AskRooms(i) ==
    /\ At(i, "rooms", "start")
    /\ \/ /\ hub = "up"
          /\ Becomes(i, [routines[i] EXCEPT !.pc = "answered",
                                            !.list = RoomsIn(session.server)])
          /\ UNCHANGED bounds
       \/ Unreachable /\ Becomes(i, [routines[i] EXCEPT !.pc = "refused"])
    /\ UNCHANGED <<base, over, then, hasty, login, atHub, browsing>>

EmptyIgnored(i) ==   \* mutant: an empty answer leaves the list as it is
    /\ At(i, "rooms", "answered")
    /\ roomList' = IF routines[i].list = {} THEN roomList ELSE routines[i].list
    /\ loaded' = TRUE /\ Ends(i)
    /\ UNCHANGED <<base, over, then, hasty, login, atHub, session, room, serverList, chosen, bounds>>

UpdateRoomList(i) ==
    /\ \/ /\ At(i, "rooms", "answered")
          /\ roomList' = routines[i].list /\ loaded' = TRUE
          /\ UNCHANGED <<base, over, then>>
       \/ /\ At(i, "rooms", "refused")
          /\ ShowError("browse")
          /\ UNCHANGED <<roomList, loaded>>
    /\ Ends(i)
    /\ UNCHANGED <<hasty, login, atHub, session, room, serverList, chosen, bounds>>

(* A follower joins its topic and subscribes.  No topic is ever closed, so *)
(* it can be joined once in a session of the node: a follower that finds   *)
(* it taken ends.  The chat page's goes by Current.Server each time.       *)
HasTopic(i) ==
    /\ At(i, "chat", "has")
    /\ IF session.topic # NoServer
       THEN Becomes(i, [routines[i] EXCEPT !.pc = "subscribe"])
       ELSE Becomes(i, [routines[i] EXCEPT !.pc = "join", !.topic = session.server])
    /\ UNCHANGED <<base, over, then, hasty, login, atHub, browsing, bounds>>

JoinTopic(i) ==
    /\ routines[i].kind \in Follower /\ routines[i].pc = "join"
    /\ joined' = joined \cup {routines[i].topic}
    /\ IF routines[i].topic \in joined
       THEN Ends(i) /\ UNCHANGED session
       ELSE IF routines[i].kind = "browse"
       THEN Becomes(i, [routines[i] EXCEPT !.pc = "next"]) /\ UNCHANGED session
       ELSE /\ session' = [session EXCEPT !.topic = routines[i].topic]
            /\ Becomes(i, [routines[i] EXCEPT !.pc = "subscribe"])
    /\ UNCHANGED <<base, over, then, hasty, profile, me, pk, host, db, logins, atHub, room,
                   lists, bounds>>

Subscribe(i) ==
    /\ At(i, "chat", "subscribe")
    /\ session.topic # NoServer
    /\ Becomes(i, [routines[i] EXCEPT !.pc = "next", !.topic = session.topic])
    /\ UNCHANGED <<base, over, then, hasty, login, atHub, browsing, bounds>>

(* GetTopic returned nil.                                                  *)
SubscribePanics(i) ==
    /\ At(i, "chat", "subscribe")
    /\ session.topic = NoServer
    /\ Exit /\ SessionEnds

Receive(i) ==
    /\ routines[i].kind \in Follower /\ routines[i].pc = "next"
    /\ \E m \in routines[i].msgs :
          Becomes(i, [routines[i] EXCEPT !.pc = "show", !.list = m, !.msgs = @ \ {m}])
    /\ UNCHANGED <<base, over, then, hasty, login, atHub, browsing, bounds>>

(* The update runs and the loop starts over, or sees that it is cancelled. *)
Show(i) ==
    /\ routines[i].kind \in Follower /\ routines[i].pc = "show"
    /\ IF routines[i].kind = "browse"
       THEN serverList' = routines[i].list /\ UNCHANGED <<roomList, loaded>>
       ELSE roomList' = routines[i].list /\ loaded' = TRUE /\ UNCHANGED serverList
    /\ IF routines[i].stop THEN Ends(i)
       ELSE Becomes(i, [routines[i] EXCEPT !.pc = "next", !.list = {}])
    /\ UNCHANGED <<base, over, then, hasty, login, atHub, session, room, chosen, bounds>>

Deaf(i) == FALSE   \* mutant: Next waits on the node's context, which nothing cancels

(* Next returns with the context's error.                                  *)
Cancelled(i) ==
    /\ routines[i].kind \in Follower /\ routines[i].pc = "next" /\ routines[i].stop
    /\ Ends(i)
    /\ UNCHANGED <<base, over, then, hasty, login, atHub, browsing, bounds>>

(* The ticker of a follower, started after its first list: it looks at the *)
(* front page twice a second and cancels the follower for good when that   *)
(* is none of its own.                                                     *)
Tick(i) ==
    /\ routines[i].kind \in Follower /\ ~routines[i].stop
    /\ routines[i].pc \notin {"start", "answered", "refused"}
    /\ IF routines[i].kind = "browse" THEN ~IsBrowsePageActive(FrontPage)
                                     ELSE ~IsChatPageActive(FrontPage)
    /\ Becomes(i, [routines[i] EXCEPT !.stop = TRUE])
    /\ UNCHANGED <<base, over, then, hasty, login, atHub, browsing, bounds>>

-----------------------------------------------------------------------------
(* The hub: others create rooms and servers as well, and a goroutine for   *)
(* each creation takes the list as it finds it and publishes it to those   *)
(* who listen by then; messages overtake each other.                       *)
OthersCreate ==
    /\ hub = "up"
    /\ \/ \E s \in Server \ servers :
             servers' = servers \cup {s} /\ Announce(s) /\ UNCHANGED rooms
       \/ \E r \in Room \ rooms :
             /\ ServerOf[r] \in servers
             /\ rooms' = rooms \cup {r} /\ Announce(r) /\ UNCHANGED servers
    /\ UNCHANGED <<screen, login, hub, browsing>>
    /\ Act

AdvertisedTopic(a) == IF a.of \in Server THEN "servers" ELSE ServerOf[a.of]

TakeList(a) ==
    /\ hub = "up" /\ a.pc = "list"
    /\ LET list == IF a.of \in Server THEN servers ELSE RoomsIn(ServerOf[a.of])
       IN  news' = (news \ {a}) \cup {[a EXCEPT !.pc = "publish", !.list = list]}
    /\ UNCHANGED <<screen, login, servers, rooms, hub, browsing, bounds>>

Hears(x, topic) == x.kind \in Follower /\ x.pc \in {"next", "show"} /\ x.topic = topic

Publish(a) ==
    /\ hub = "up" /\ a.pc = "publish"
    /\ news' = news \ {a}
    /\ routines' = [i \in DOMAIN routines |->
                      IF Hears(routines[i], AdvertisedTopic(a))
                      THEN [routines[i] EXCEPT !.msgs = @ \cup {a.list}]
                      ELSE routines[i]]
    /\ UNCHANGED <<base, over, then, hasty, login, servers, rooms, hub, browsing, bounds>>

-----------------------------------------------------------------------------
Pages ==
    \/ Leave \/ HandlerFails
    \/ \E f \in Form : OpenForm(f) \/ Cancel(f)
    \/ \E s \in Server : CreateServer(s) \/ JoinServer(s)
    \/ \E r \in Room : CreateRoom(r) \/ JoinRoom(r)

Routine(i) ==
    \/ AskServers(i) \/ UpdateServerList(i) \/ AskRooms(i) \/ UpdateRoomList(i)
    \/ HasTopic(i) \/ JoinTopic(i) \/ Subscribe(i) \/ SubscribePanics(i)
    \/ Receive(i) \/ Show(i) \/ Cancelled(i)

Routines == \E i \in DOMAIN routines : Routine(i)
Tickers == \E i \in DOMAIN routines : Tick(i)

Next ==
    \/ LoginStep /\ UNCHANGED <<atHub, browsing, bounds>>
    \/ ProcessStep /\ SessionEnds
    \/ \E i \in DOMAIN routines :
          SwitchToBrowseScreen(i) /\ UNCHANGED <<atHub, browsing, bounds>>
    \/ Pages \/ Routines \/ Tickers
    \/ OthersCreate \/ \E a \in news : TakeList(a) \/ Publish(a)

Spec == Init /\ [][Next]_vars

(* Goroutines run and tickers tick; nobody has to press anything.          *)
FairSpec == Spec /\ WF_vars(Routines) /\ WF_vars(Tickers)

-----------------------------------------------------------------------------
(* One who joins a server when the goroutines of the last one have ended,  *)
(* and picks a room when the list has come, picks a room of that server:   *)
(* the hub's handler finds it.                                             *)
PicksFind == [][hub' = hub \/ hasty']_vars

(* And the rooms topic found in the current session is its server's, or    *)
(* none while nobody reads it.                                             *)
TopicIsItsServers ==
    hasty \/ /\ session.topic \in {NoServer, session.server}
             /\ \A i \in DOMAIN routines :
                   At(i, "chat", "subscribe") => session.topic # NoServer

(* Who stays away from a page is not followed by its goroutines, wherever  *)
(* they were when it was left.                                             *)
FollowersEnd ==
    /\ <>[](~IsChatPageActive(FrontPage)) => <>[](~Running({"chat"}))
    /\ <>[](~IsBrowsePageActive(FrontPage)) => <>[](~Running({"browse"}))
=============================================================================
