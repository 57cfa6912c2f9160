------------------------------- MODULE Screen -------------------------------
(***************************************************************************)
(* The one screen of a client (tview's Pages) and the goroutines that work *)
(* on it.  SwitchToPage shows one of three pages alone; forms and dialogs  *)
(* are added above it.  Handlers run on the UI goroutine one at a time;    *)
(* other goroutines queue an update and wait until it has run, so each has *)
(* at most one on its way.                                                 *)
(***************************************************************************)
EXTENDS Sequences, SequencesExt

VARIABLES
    base,      \* "login", "browse" or "chat"; "off" when the process has ended
    over,      \* the visible pages above it, the front one last
    then,      \* where the error dialog's button leads; "stay": nowhere
    routines,  \* the goroutines that run, each with a kind and a pc
    hasty      \* history: the user went on while what came before still ran

screen == <<base, over, then, routines, hasty>>

Overlay ==
    {"createServer", "joinServer", "createRoom", "joinRoom", "toast", "error"}

IsChatPageActive(page) ==
    page \in {"chat", "createRoom", "toast", "joinRoom", "error"}
IsBrowsePageActive(page) == page \in {"browse", "createServer", "toast"}

FrontPage == IF over = << >> THEN base ELSE Last(over)
Visible(page) == Contains(over, page)
Without(page) == RemoveFirst(over, page)

SwitchToPage(page) == base' = page /\ over' = << >> /\ then' = "stay"
AddPage(page) == over' = Append(Without(page), page) /\ UNCHANGED <<base, then>>
RemovePage(page) == over' = Without(page) /\ UNCHANGED <<base, then>>

StackedError(next) ==   \* mutant: every error gets a page of its own
    over' = Append(over, "error") /\ then' = next /\ UNCHANGED base

(* A second error takes the first one's place, and its button.             *)
ShowError(next) ==
    over' = Append(Without("error"), "error") /\ then' = next /\ UNCHANGED base

Dismiss ==
    /\ \/ Visible("toast") /\ RemovePage("toast")
       \/ /\ Visible("error")
          /\ IF then = "stay" THEN RemovePage("error") ELSE SwitchToPage(then)
    /\ UNCHANGED <<routines, hasty>>

Running(kinds) == \E i \in DOMAIN routines : routines[i].kind \in kinds
At(i, kind, pc) == routines[i].kind = kind /\ routines[i].pc = pc
Becomes(i, r) == routines' = [routines EXCEPT ![i] = r]
Go(kind) ==
    [kind |-> kind, pc |-> "start", topic |-> "none", list |-> {}, msgs |-> {}, stop |-> FALSE]
Ends(i) == routines' = RemoveAt(routines, i)
=============================================================================
