------------------------------- MODULE Login -------------------------------
(***************************************************************************)
(* Profiles and the login page.  A profile file holds a user's keys under  *)
(* its password.  LoginHandler and CreateUserHandler install the keys at   *)
(* once, on the UI goroutine, and leave the database and the libp2p node   *)
(* to a goroutine that reads the node's key when it gets there; the form   *)
(* stays usable meanwhile.  A process may end at any step.                 *)
(***************************************************************************)
EXTENDS Screen, Naturals

CONSTANTS
    User, NoUser,
    Pass,
    MaxLogins      \* bound: buttons of the login form pressed in a behaviour

ASSUME LoginAssumption == NoUser \notin User /\ MaxLogins \in Nat

VARIABLES
    profile,       \* each user's file: survives the process
    me,            \* cli.User and cli.Keybag
    pk, host,      \* Node.PK, and the identity of Node.Host
    db,            \* whose database SessionDB is
    joined,        \* topics joined in Node.PS
    logins         \* buttons pressed

account == <<me, pk, host, db, joined>>
login == <<profile, account, logins>>

(* Key sets are numbered as they are generated; 0 is none.                 *)
Keys == 0..MaxLogins
Absent == [state |-> "absent"]
Torn == [state |-> "torn"]     \* created, and not or not wholly written
Whole(p, k) == [state |-> "whole", pass |-> p, keys |-> k]
Nobody == [name |-> NoUser, keys |-> 0]

LoginTypeOK ==
    /\ profile \in [User -> {Absent, Torn} \cup {Whole(p, k) : p \in Pass, k \in Keys}]
    /\ me \in [name : User \cup {NoUser}, keys : Keys]
    /\ pk \in Keys /\ host \in Keys
    /\ db \in User \cup {NoUser}
    /\ logins \in 0..MaxLogins

-----------------------------------------------------------------------------
(* StartClientApp: what a new process starts from.                         *)
Fresh ==
    /\ base = "login" /\ over = << >> /\ then = "stay"
    /\ routines = << >> /\ hasty = FALSE
    /\ me = Nobody /\ pk = 0 /\ host = 0 /\ db = NoUser /\ joined = {}

LoginInit == Fresh /\ profile = [u \in User |-> Absent] /\ logins = 0

(* The process ends, or is started again: its memory is gone.              *)
Off(page) ==
    /\ base' = page /\ over' = << >> /\ then' = "stay"
    /\ routines' = << >> /\ hasty' = FALSE
    /\ me' = Nobody /\ pk' = 0 /\ host' = 0 /\ db' = NoUser /\ joined' = {}

(* A button of the form.  It is pressed hastily while goroutines of before *)
(* still run or a dialog waits: the mouse reaches what is under a dialog.  *)
Press ==
    /\ base = "login" /\ logins < MaxLogins
    /\ logins' = logins + 1
    /\ hasty' = (hasty \/ routines # << >> \/ over # << >>)

(* The part both handlers share once LoadProfile has returned a user and   *)
(* its keys: a hub address that does not parse ends it half-way.           *)
Proceed(u, k) ==
    /\ me' = [name |-> u, keys |-> k]
    /\ \/ /\ pk' = k
          /\ routines' = Append(routines, [kind |-> "login", pc |-> "db", name |-> u])
          /\ UNCHANGED <<base, over, then>>
       \/ ShowError("stay") /\ UNCHANGED <<pk, routines>>
    /\ UNCHANGED <<host, db, joined>>

(* The file is there, decodes, and its keys open under the password.       *)
LoadProfile(u, p) == profile[u].state = "whole" /\ profile[u].pass = p

LoginHandler(u, p) ==
    /\ Press
    /\ IF LoadProfile(u, p)
       THEN Proceed(u, profile[u].keys)
       ELSE ShowError("stay") /\ UNCHANGED <<account, routines>>
    /\ UNCHANGED profile

UsedUnwritten(u, p) ==   \* mutant: the keys are used whether or not they were saved
    /\ Press
    /\ profile' = [profile EXCEPT ![u] = Torn]
    /\ Proceed(u, logins')

(* New keys, in place of whatever file the user had.                       *)
GenerateProfile(u, p) == profile' = [profile EXCEPT ![u] = Whole(p, logins')]

CreateUserHandler(u, p) ==
    /\ Press
    /\ GenerateProfile(u, p)
    /\ Proceed(u, logins')

(* os.Create has truncated the file and Encode does not fill it.           *)
EncodeFails(u, p) ==
    /\ Press
    /\ profile' = [profile EXCEPT ![u] = Torn]
    /\ ShowError("stay")
    /\ UNCHANGED <<account, routines>>

(* The process ends between the two.                                       *)
CutOff(u) ==
    /\ base = "login" /\ logins < MaxLogins
    /\ Off("off") /\ profile' = [profile EXCEPT ![u] = Torn] /\ logins' = logins + 1

-----------------------------------------------------------------------------
(* The goroutine of an attempt.                                            *)
DbOptional(i) ==   \* mutant: a database that does not open is not fatal
    /\ At(i, "login", "db")
    /\ db' \in {db, routines[i].name}
    /\ Becomes(i, [routines[i] EXCEPT !.pc = "node"])
    /\ UNCHANGED <<base, over, then, profile, me, pk, host, joined, logins, hasty>>

InitSessionDB(i) ==
    /\ At(i, "login", "db")
    /\ \/ /\ db' = routines[i].name
          /\ Becomes(i, [routines[i] EXCEPT !.pc = "node"])
          /\ UNCHANGED <<base, over, then>>
       \/ /\ ShowError("stay") /\ Ends(i)
          /\ UNCHANGED db
    /\ UNCHANGED <<profile, me, pk, host, joined, logins, hasty>>

(* InitHost takes the node's key as it is now; a new host gets a new       *)
(* PubSub, which has joined no topic.                                      *)
InitNode(i) ==
    /\ At(i, "login", "node")
    /\ host' = pk /\ joined' = {}
    /\ Becomes(i, [routines[i] EXCEPT !.pc = "shown"])
    /\ UNCHANGED <<base, over, then, hasty, profile, me, pk, db, logins>>

(* libp2p.New fails, or the host is up and the hub cannot be reached.      *)
InitNodeFails(i) ==
    /\ At(i, "login", "node")
    /\ host' \in {host, pk}
    /\ ShowError("stay") /\ Ends(i)
    /\ UNCHANGED <<hasty, profile, me, pk, db, joined, logins>>

(* The goroutine's last update.  The page's own goroutine starts.          *)
SwitchToBrowseScreen(i) ==
    /\ At(i, "login", "shown")
    /\ SwitchToPage("browse")
    /\ routines' = Append(RemoveAt(routines, i), Go("browse"))
    /\ UNCHANGED <<hasty, login>>

Exit == base # "off" /\ Off("off") /\ UNCHANGED <<profile, logins>>
Restart == base = "off" /\ Off("login") /\ UNCHANGED <<profile, logins>>

-----------------------------------------------------------------------------
ProcessStep == Exit \/ Restart \/ \E u \in User : CutOff(u)

LoginStep ==
    \/ \E u \in User, p \in Pass :
          LoginHandler(u, p) \/ CreateUserHandler(u, p) \/ EncodeFails(u, p)
    \/ \E i \in DOMAIN routines : InitSessionDB(i) \/ InitNode(i) \/ InitNodeFails(i)
    \/ Dismiss /\ UNCHANGED login

LoginNext ==
    ProcessStep \/ LoginStep \/ \E i \in DOMAIN routines : SwitchToBrowseScreen(i)

LoginSpec == LoginInit /\ [][LoginNext]_<<screen, login>>

-----------------------------------------------------------------------------
LoggedIn == base \in {"browse", "chat"} /\ ~hasty

(* Whoever lets one attempt end before starting the next is one person on  *)
(* the other pages: the name and keys messages are signed with, the peer   *)
(* id the hub sees (server.go:360 refuses to enter another one among a     *)
(* room's members), and the database what is received is filed in.         *)
SessionAgrees ==
    LoggedIn => me.name = db /\ me.keys = host

(* And can log in again as the same person: what is in use is on the disk. *)
KeysAreOnDisk ==
    LoggedIn => /\ profile[me.name].state = "whole"
                /\ profile[me.name].keys = me.keys
=============================================================================
