# Hillside in TLA+

Hillside is a peer-to-peer chat: clients (`internal/client`, over libp2p) talk in rooms whose messages are encrypted
under a symmetric ratchet all members share, keep a local SQLite database, and find servers, rooms and one another
through a hub (`internal/hub`). These modules model the parts whose correctness depends on order, overlap, loss and
restarts, check them on small instances with TLC, and prove the central facts for all instances with TLAPS.

## The system

| Component | State | Operations | Interaction | What is hard | What makes it correct | Where |
|---|---|---|---|---|---|---|
| Room ratchet (`crypto/ratchetkey.go`, `messages.go`, `decryptMessage`) | chain key and counter of `RoomRatchet` and of the `BackupRatchet` that trails it | `NextKey`, `SetInitialRatchet`, `EncryptMessage`, `decryptMessage` | shared by the UI goroutine and every chat goroutine, without a lock | lost updates; jumps ahead and lookups behind | chain position and counter agree, a label is its key's index, every search ends | `Ratchet`, `RatchetThreads` |
| Chat (`client/chat.go`, `handlers.go`) | current room, sessions, chat goroutines, screen | `JoinRoomHandler`, `SendMessageHandler`, `chatHandler`, `parseAndDisplayDBMessages` | pubsub topics, the database, the hub's answer | goroutines that outlive their room, late and lost messages, rejoins, panics, restarts | a row has its key's index and, unless the user changed rooms under it, its room; no client seals under a key it has taken; keys are used once *only where members take turns*, which the code leaves to them | `ChatRoom`, `ChatTurns` |
| Catch-up (`client/helpers.go`) | requests, response topics, goroutines that answer | `requestCatchUp`, `helpCatchUp` | two processes over topics; reads the database, the current room, the peers table | retries, clashes over a topic, three reads of what another goroutine changes | the right room's key unless the helper's user changes rooms; a request is always given up or answered; a room's ratchet is set once; a response topic is open only while somebody is to close it or because that goroutine died | `CatchUp` |
| Message history (`storage/history.go`) | write queue, batch, timer, last-index cache, table | `EnqueueEnvelope`, `writeWorker`, `GetLastIndex`, `Stop` | one worker, many callers, an RWMutex | batches interrupted, `Stop` racing the queue, lock upgrades | nothing is overtaken, written twice or left in the queue | `History`, `WriteBehind` |
| Peer manager (`storage/peer_manager.go`) | queue, peers table | `EnqueueUserEntry`, worker | filled by joins, read by validation | validation before the write | a join ends whichever is first | `CatchUp` (part) |
| Hub (`hub/server.go`, `store.go`) | servers, rooms, members, shared request envelope | seven RPCs, three advertisements | a goroutine per stream, goroutines that publish, clients' lists | overlapping handlers, stale lists, a panic that empties the store | a member misses only those whose own joining message did not get to it; one key per room; until the hub starts again, listed rooms can be joined *on their own server* | `Hub`, `HubEnv` |
| Browsing (`client/handlers.go`, `rpc.go`, `ui/browse.go`, `ui/chat.go`) | pages and dialogs, lists on the screen, current server and room, goroutines that fetch and follow lists, joined topics | create and join handlers, forms, `refreshServerList`, `refreshRoomList`, `StartAutoRefresh`, `StartRoomAutoRefresh` | the hub's RPCs and topics, the UI goroutine, a ticker per follower | lists of the server before, followers that outlive a page, topics joined twice, dialogs in front | *for a user who waits for the last server's goroutines and lists*, what is picked is the current server's and a topic is its server's; followers end | `Screen`, `Browsing`; `Hub` (calls, members) |
| Room keys (`storage/auth.go`) | `room_auth` table | `SaveAuth`, `GetAuth` | written by creators, read by joins and helpers | errors of a read in the middle of an answer | only the creator has a key | constants of `ChatRoom`, `CatchUp`; `auth` in `Hub` |
| Login and profiles (`client/handlers.go`, `profile/`) | profile files, user and keys in use, the node's key and identity, the open database | `LoginHandler`, `CreateUserHandler`, `GenerateProfile`, `LoadProfile`, `InitSessionDB`, `InitNode` | the form stays usable while a goroutine sets up database and node | overlapping attempts, a crash between truncation and contents | *for a user who lets one attempt end before the next*, name, keys, peer id and database are one person's; keys in use are on the disk | `Screen`, `Login` |
| Envelopes, models, layout and themes | - | pure functions, widgets | - | - | - | not modelled |

## The modules

`Ratchet` holds the pure operators: a chain key is the room it started from and the number of HMAC steps since, next to
the counter. That the two agree is never assumed; it is what `RatchetSound` says. `ChatRoom` EXTENDS it, and `ChatTurns`
EXTENDS `ChatRoom` with users that take turns. `RatchetThreads` EXTENDS `Ratchet` and breaks `NextKey` and the handlers
around it into single loads and stores, so it shows under which schedule the closed form of `Ratchet` is what the loops
of `decryptMessage` compute. `Screen` is the screen of a client and its
goroutines, `Login` EXTENDS it with profiles and the login page, and `Browsing` EXTENDS `Login` with the other two pages and the
hub as they see it. `CatchUp`, `History`, `Hub` and `HubEnv` stand alone: they look inside what `ChatRoom` takes as
one step or as given. `WriteBehind` is the abstract promise of `History`. `MCChatRoom`, `MCChatTurns`, `MCCatchUp`,
`MCHub` and `MCBrowsing` give the constants of a run that a .cfg cannot; `RatchetThreads_proofs`, `ChatRoom_proofs`, `ChatTurns_proofs`, `History_proofs`,
`CatchUp_proofs`, `Hub_proofs`, `Login_proofs` and `Browsing_proofs` hold the theorems.

How state and actions correspond to the code:

- **ChatRoom.** `cur`, `session`, `ready`, `topics` are fields of `Session` and `RoomSession`; `screen` is the one list `ChatSection`, which is
  never cleared when a room is entered; `queue` and `rows` are the write queue and the table; `loops` counts the chat goroutines, `idle` those that
  wait for a message. `Enter` to `StartLoop` are the stretches of `JoinRoomHandler` between calls that block. A chat goroutine's round has a step for
  each read of the current room: `Deciphered` (chat.go:65; or `Undeciphered`, or `ReceivePanics`), `Files` (77-80, the room to store it under), then
  `Draws`, for which it waits until the UI goroutine is back in its event loop. The user may enter another room between any two. `strayed`
  remembers the messages that had been decrypted and not filed when that happened. `SendFails` and `SubscribeFails` are the error returns after the
  ratchet has moved or was installed. `Exit` is `Shutdown` or a killed process and `Restart` the next start: all but `rows` is lost. A message is its room, sender, index and key; it
  opens exactly under the key it was sealed with.
- **RatchetThreads.** `mem` is the shared memory, `pc` the next load or store of each goroutine, `Forward`, `Trim` and `Backward`
  the loop conditions of `decryptMessage`.
- **CatchUp.** `hui`, `hcur` and `at` are the helper's UI goroutine, current room, and the place of each `helpCatchUp` goroutine between
  its reads of the current room; `ui`, `attempt`, `saving`, `next` are `requestCatchUp`; `open` and `subscribed` the response topics each
  process has joined (a second join of one fails), `lost` those a goroutine joined and died with. `AnswerFails` and `NotInitialized` are the error
  returns of helpers.go:229-244, `AskFails` those of 68-90, `AnswerPanics` is the nil dereference at 124.
- **History.** `worker`, `batch`, `back`, `timer` are `writeWorker`'s loop, its batch and where its flush closure returns to;
  `reader` and `holders` are `GetLastIndex` under its `RLock`.
- **Hub.** A stream `i` is a `handleRPC` goroutine and then the one it starts; `waiting` and `answer` are the caller's side of it. A call and
  its handler's first step are one action: nothing can depend on the time between. `servers`, `rooms`, `members` are the store, `shown`,
  `known`, `loops`, `auth` the client. `JoinRoomPanics` is the nil dereference at server.go:354, which ends the hub, and `MapRaces` the
  runtime's fatal error when it sees a map of members written while another handler is at it. That detection is best effort, so a list that was not
  caught may have or lack who is being added (`Iterated`). `SenderMismatch` is a join that is answered and adds nobody. `Subscribe` is the client's;
  the hub knows of it from `Announced` on (`heard`), and only then can its messages get there. `untold` remembers whose joining message did not
  reach which goroutine, because it was lost, not published (`AdvertiseFails`), or came before `Announced`.
- **HubEnv.** `env` is the package variable all handlers decode into; its method and params are written, then read, one by one.
- **Screen.** `base` is the page shown by `SwitchToPage`, `over` what `AddPage` put above it, `then` where the error dialog's button leads;
  `routines` the goroutines by kind and program counter. Updates a goroutine queues (`QueueUpdateDraw`) are steps of that goroutine.
- **Login.** `profile` are the files, whole with password and keys or torn; `me` is `cli.User` and `cli.Keybag`, `pk` and `host` are `Node.PK` and the
  identity of `Node.Host`, `db` says whose database is open, `joined` which topics `Node.PS` has joined. `InitSessionDB`, `InitNode` and
  `SwitchToBrowseScreen` are the steps of an attempt's goroutine. `EncodeFails` and `CutOff` are the two ways a file is left torn.
- **Browsing.** `session` is `Current.Server` with the server whose rooms topic its `Topics` hold, `chosen` is `selectedServer` or `selectedRoom`. A
  `browse` or `chat` routine is `StartAutoRefresh` or `StartRoomAutoRefresh` with its subscription (`msgs`, in any order) and its cancelled context
  (`stop`); `Tick` is its ticker. `TakeList` and `Publish` are the two halves of the hub's `AdvertiseNewServer` and `AdvertiseNewRoom`. The toast's
  timer is `Dismiss`, which may come at any time.

## What is checked

| Run | Instance | Shows |
|---|---|---|
| `ratchet_serial` | 2 goroutines, window 3, indices 0..5 | Alone, `decryptMessage`'s loops give the closed form (`DecryptIsClosedForm`), a sent label is its key's index, every search ends. |
| `ratchet_race` (violation) | the same, overlapping | `IndexCountsKeys` fails: two `NextKey`s lose an update. |
| `chat_free` | 2 clients, 2 rooms, window 2, 2 messages, limits and queue of 1, 1 goroutine per room and client, 1 fault | Anybody sends at any time, messages are late or lost, the user changes rooms with a message in hand, sends and joins fail, the queue refuses, processes exit or panic and restart: ratchets stay on their chains and only go forward except on a join (`RatchetSound`, `RatchetsAdvance`), a row has its key's index and, unless it strayed, its room (`RowsReadable`), no client seals under a key it has taken (`OwnKeysFresh`). |
| `chat_ordered` | one room, 3 messages, no exits, no faults but failing joins | With turns and ordered delivery, neither of which the code enforces, no key is used twice, each message opens, and ends on the screen. |
| `history` | queue and batch of 2, 3 writes, 2 readers | The cache is never ahead of the table, `Stop` drains, `History` implements `WriteBehind` (`KeepsPromise`), and what was accepted is written, or its save fails, the process ends, or a reader has wedged the worker (`EventuallyWritten`). |
| `history_upgrade` (violation) | one reader, one row | `GetLastIndex` waits for its own read lock. |
| `catch_up` | 2 rooms, 2 answering goroutines, 2 attempts, 2 joins of the helper's user | A join ends (`JoinEnds`); an answer whose helper stayed is the asked room's; an open response topic has one goroutine that is to close it, or was left open by one that failed there (`TopicHeldOrLost`); a room's ratchet is set by one answer in the life of a process (`InstalledOnce`). |
| `catch_up_switch` (violation) | one goroutine | The helper's user enters another of its rooms while an answer is built, and the newcomer installs that room's key. |
| `hub` | 2 clients, 1 server, 1 room, 2 streams, any number of hub ends | Who watches a room's members misses only those whose own joining message did not get to it (`NoMemberMissed`), a room's id has one creator's key, what is on a screen can be joined on its own server unless the hub has started again (`ShownCanBeJoined`). |
| `hub_env` (violation) | 2 streams, 2 methods, 2 rooms | A handler answers a request that came in on another stream. |
| `login` | 2 users, 2 buttons pressed, 1 server, 2 acts | Logging in, creating, failing, exiting and restarting: who lets one attempt end before the next has one identity in name, keys, peer id and database (`SessionAgrees`), and its keys on the disk (`KeysAreOnDisk`). |
| `browsing` | 1 user, 2 servers, 2 rooms, 4 acts | For a user who joins a server only when the chat page's goroutines of the last one have ended, a room picked from a loaded list is the current server's (`PicksFind`) and the rooms topic of a session is its server's (`TopicIsItsServers`). Followers of a page that is left for good end, for any user (`FollowersEnd`). |

### Bounds

Every bound is a constant that its module marks "bound".

- **Window** 2 or 3 stands for 10. The code compares indices with the window, so it is enough that messages fall before, in and past
  it: with window 2 and four messages, and window 3 and indices to 5, all three happen. The proofs have any window.
- **LoadLimit, CatchUpLimit** 1 or 2 stand for 200 and 100, **QueueSize** 1 or 2 for the write queue's; two or three messages reach and pass them.
- **MaxMsgs** 2 in `chat_free` is enough for a late message, a lost one and a reused index. `MaxSubs` 1 is one goroutine per room and
  client, two per client; a second for the same room does the same on another copy of a message. The proofs bound neither.
- **Plans** says, for one behaviour, which rooms each client enters, whether its joins may fail before they have a ratchet, and how many faults (a restart, a failing
  subscription, a failing send) it has. In `chat_free` either the creator moves between two rooms, and exits, panics and failing joins of the other
  client are what goes wrong, or both stay in one room, any join may fail and one of them has a fault: with all at once the state space is out of reach. The proofs take any set of plans.
- **MaxJoins** 2 is a visit and a switch (3, with a return, in `catch_up_switch`), and **Helper** 2 a clash; requests beyond `MaxInbox` are
  lost, as they may be anyway. The newcomer's process may end and start again any number of times; its peers table starts as any earlier run
  could have left it.
- **History** sizes 2 let a batch be full, partial and interrupted while more waits.
- **Hub** has two streams: every race of a handler or an advertisement with another. **MaxInbox** 1 is one members message on its way to a
  client at a time; more are lost, as they may be anyway. The run has one server and one room, because two servers do not fit in its time; every
  property of the run is stated, and proved, for any number of both, and what goes wrong with two servers is under the findings (7). A public room is one whose password is
  never wrong, so the visibilities are two. Ids given out by an earlier run of the hub are not drawn again (they are 8 random
  bytes), and one refresh goroutine stands for all of a client's in one room.
- **Browsing** has two servers, the second without a room at first and its room behind a password, so that a pick goes through a list
  or through a form. **MaxActs** 4 is two joins and two more steps, or a join, a way back, a creation and a pick; **MaxRoutines** 3 lets an old follower, a new one and a
  refresh overlap (each act that starts goroutines needs room for them); **MaxFaults** 1 fails any one call. **MaxLogins** 2 is the least
  at which attempts can overlap; `login` has no rooms and one server, which is all the way back to the login page needs, and `browsing` one login.

### Fairness

Most specifications have none: safety is about what may happen at any pace. `SerialSpec` has weak fairness for each
goroutine's next step: Go schedules what can run. `OrderedSpec` is fair to the handlers and to the worker, and lets the
network deliver; nobody is obliged to send or join. `FairSpec` is fair to the worker, to the timer and to readers, and strongly fair to
receiving a request, because a Go `select` picks among ready cases at random. `Browsing`'s `FairSpec` is fair to its goroutines
and to their tickers, and to nothing a user or the hub does. `CatchUp` is fair to
`RequestCatchUp` alone: its timer fires and its goroutine runs, while helper and network owe nothing.

## What is proved

All theorems hold for every value of the constants under the modules' named assumptions (a positive window, every room with a
creator, capacities that are positive, bounds that are naturals, some room to catch up in, `NoRoom` not a room, `None` nothing else, the servers
topic no server's rooms topic, which is `pubsub_topics.go`'s naming). One of
them has a hypothesis more: `TurnsEveryMessageOpens` is about members that keep to one room (`KeepToOneRoom`), besides taking turns. Those of `Hub_proofs` also take ids of rooms to differ from
one server to the next (`ServerOf`).

- **`RatchetThreads_proofs`**: `RatchetTypes`, `RatchetDecryptIsClosedForm` and `RatchetLabelIsKeyIndex`, about `SerialSpec`, where a handler starts
  when none runs. `RInv` has the invariants of the loops: how far `NextKey` has got with the ratchet it was called on (`Stepping`), the key in hand and where
  the two counters are for a sender (`SendRuns`), for the outer loop with its trimming (`ForwardRuns`: after each key the backup is
  at its distance or where it was) and for the search behind (`BackwardRuns`). So what the other theorems use as one operator, `Decrypt`, is what the loops compute.
- **`ChatRoom_proofs`**: `DecryptSound` and `EncryptSound` say that a pair of ratchets that is sound stays so, at any index and
  window, and that the keys offered are the chain's at that index. They are all that the rest uses of the arithmetic. `SpecIInv` proves the inductive invariant `IInv`; `ChatTypeOK`, `ChatRatchetSound` and `ChatRowsReadable`
  follow from it. None of the three is inductive alone. A row is readable because the message it was made of opened
  under the room's chain, so rows need sound ratchets (`RatchetSound`), published messages that carry their key's index
  (`MessagesLabelled`) and exist (`InFlight`), a message between decryption and filing that is of the current room or has strayed (`OpenedHere`),
  a queue and a replay list that are as good as the table (`QueueReadable`, `TodoReadable`),
  and joins that are joins of a room (`JoiningARoom`). There is one lemma per action. `ChatRatchetsAdvance` and `ChatOwnKeysFresh` prove the action
  properties from the same invariant; the second needs that a ratchet is past every key it has given since it was installed (`UsedPassed`).
- **`ChatTurns_proofs`**: `TurnsEveryMessageOpens`, on the lemma `TurnsNoKeyReuse`. `TInv` adds that a message on a client's screen lies behind that client's
  ratchet (`ShownPassed`), that a room once joined in a session has its ratchets (`RoomsReady`), and `NoKeyReuse` itself: who sees every message is
  past every key, so its next is new (`SendTakesNewKey`). The lemma is about `TurnsSpec`, where messages are also lost and processes
  restart; `OrderedSpec` is a special case (`OrderedIsTurns`). It is a lemma because its hypothesis, turns, is nothing the code enforces: members who
  send at once, or who restart and have not seen what they sent, do share keys. The theorem is about `OrderedSpec`. `EveryMessageOpens` is no more than what `Decrypt`
  needs, a backup that is not past the message; `OInv` says why it never is: each message comes once (`OneLoop`, `ComesOnce`), rows are replayed
  before what was published since (`ReplayedFirst`), a room's indices grow (`IndicesGrow`, from the turns), no ratchet is past the next index
  (`RatchetsBehind`), and the backup is not past what has still to come (`BackupBehind`). Its hypothesis, `KeepToOneRoom`, is the run's: a client enters one room
  only (others may enter others). Without it the property is false, because chat goroutines work on whatever room is current.
- **`Login_proofs`**: `LoginTypes`, `LoginAgrees` and `LoginKeysOnDisk`, for any users, passwords and number of attempts, about `LoginSpec`, which
  ends where the browse page starts. Neither property is inductive: the goroutine of an attempt reads `Node.PK` late. `OneAtATime` says that
  while the user has not been hasty there is at most one attempt, alone behind the login page, and it has settled what its program counter
  says (`Settles`: the name it carries is the user's, the node's key is the keybag's and the file's, and from some point the database and the
  host are too); behind the other pages all of it agrees. Being hasty is a history variable: a button pressed while a goroutine runs or a
  dialog waits. The lemmas about the screen (`ScreenOK`: no page twice, the error dialog leads back to a page it may) serve both modules.
- **`Browsing_proofs`**: `BrowsingTypes`, `BrowsingTopic`, `BrowsingPicksFind`, `BrowsingAgrees` and `BrowsingKeysOnDisk`, for any servers, rooms, users,
  goroutines and failed calls, about the whole `Spec`: login, pages, failures, exits, restarts. `BrowsingTopic` and `BrowsingPicksFind` are about
  users who are not hasty: a join of a server while goroutines of the last one's chat page run, or a pick before a list has come, is left out, and
  goes wrong in the code (findings 7 and 15). `BInv` follows every list from the hub to
  the screen. `StoreOK` says what an advertisement may hold, `Sound` what a goroutine of the pages may: lists of what the hub has, and for a user
  who is not hasty of the current server (`OfSession`), with the topic it joins that server's and still there when it subscribes. `ShownSound` says the
  same of the screen: a loaded list, the room a form was opened for and the session's topic are the current server's. That a
  list can change hands between them is why none of the properties is inductive alone. `OneAtATime` is carried through the pages.
- **`History_proofs`**: `HistoryTypes`, `HistoryCacheNotAhead`, `HistoryStopDrains`, and `HistoryKeepsPromise`, the refinement of `WriteBehind`, for any
  capacities, readers and writes. `HInv` adds to the properties what the worker relies on between two of its steps: room in the batch
  for what it receives next (`BatchHasRoom`), a row that was saved still at the head of the batch until the cache has it
  (`HeadSaved`), a drain only after `Stop` (`StopSeen`), and a queue that holds nothing older than the `Stop` once it has been
  found empty (`QueueLate`). In the refinement what `WriteBehind` still has to write is the batch followed by the queue.
- **`CatchUp_proofs`**: `CatchUpTypes`, `CatchUpAnswersAskedRoom`, `CatchUpTopicHeldOrLost` and `CatchUpInstalledOnce`, for any rooms, goroutines,
  histories, retries and failures. `CInv` follows what a goroutine has read of the current room from place to place (`ReadsCurrent`), and says
  that a room whose key has come, or is being waited for, has had its response topic joined in this run (`AskedOnce`).
- **`Hub_proofs`**: `HubTypes`, `HubMissesOnlyUntold`, `HubOneKeyPerRoom` and `HubShownCanBeJoined`, for any clients, servers, rooms, visibilities, streams and ends of the hub. `HubInv`
  has a part for each question. `HomesOK` says that a room is stored with the server its id was drawn for (`ServerOf`: ids are 8 random bytes, and the
  store draws again only within one server), so that a client that goes to another server confuses no two rooms. `StreamsOK` ties a stream's place to its request. `ListsOK` says that what is in a snapshot or an answer can be
  joined, on the server it is of, as much as what is on the screen. `KeysOK` counts a call that creates a room as a claim on its id, so that the id is in use before its creator hears
  of it. `OwedOK` says, while a client's call for the members is under way, whom it will name and who is told of otherwise; it needs
  `UIOK`: a client waits for one such call at a time, made from the room and the server it is still in. `MembersOK` is `NoMemberMissed`
  for a client that may have left the room's server since: it is still told, and it may come back. Both count a member in `untold` as accounted for,
  which is as far as the code goes: nothing asks for the list again. There is one lemma per action, and one (`MembersHold`) for all the
  actions that leave the members alone.

`ChatRoom` takes a catch-up as one step by a helper that stays in the room, and a handler's run between two blocking calls or
reads of the current room as one step; within one, `NextKey` is not interrupted. The theorems rest on both. `CatchUp` and `RatchetThreads` show, with `catch_up_switch` and `ratchet_race`, what
the code also does when they do not hold: a wrong key, and a ratchet whose counter no longer counts.

Only model-checked: the liveness properties (`HandlersReturn`, `EventuallyShown`, `EventuallyWritten`, `JoinEnds`, `FollowersEnd`), which need
fairness and `ENABLED` and so are out of this prover's reach. Every invariant and action property of the passing runs has a theorem. The four
properties of the violation runs are refuted, not proved.

## Findings

With a run that shows them:

1. `NextKey` is not safe for the goroutines that share a ratchet (`ratchet_race`).
2. `GetLastIndex` deadlocks with itself on a cache miss that finds a row, and stops the write worker (`history_upgrade`).
3. `helpCatchUp` answers from whatever room is current and can send another room's key (`catch_up_switch`).
4. `handleRPC` decodes into one variable for all streams (`hub_env`).

Met while modelling:

5. Typing before the first join dereferences a nil room (chat.go:119) where an error message was meant; in `ChatRoom` it is
   `SendWithoutRoom`.
6. `GetLatestMessages` returns the oldest rows (`ORDER BY chain_index ASC LIMIT`); a rejoin of a long room ends with its ratchet
   behind the table. `Oldest` in `ChatRoom` is what it does.
7. The hub's `JoinRoom` dereferences the nil room of its own error answer (server.go:354) and the process ends. With two servers a client gets
   there by itself: the first server's rooms stay on its screen after it joins the second, and one picked before the new list comes is sent with
   the new server's id. In `Browsing` it is what `hasty` excludes from `PicksFind`.
8. `refreshMembersList` takes a message relayed by a member for a forgery (handlers.go:433) and ends; it also ends for good at the first member it
   cannot connect to, and adds a room's members to whatever room is current.
9. A replay of the client's own row dereferences a user its peers table never has (handlers.go:371).
10. The servers topic and a server's rooms topic are joined once in the life of a node and never closed, so the follower of a second visit
    ends at once (handlers.go:560, 643): from then on the page shows only what its own actions fetch. A list on a page therefore does not in
    the end agree with the hub, and no property says so.
11. Attempts to log in that overlap mix two users (handlers.go:57): without `hasty`, `SessionAgrees` fails in six steps.
12. The 3-second timer of one toast takes off the next one, also the id of a private server or room that is shown nowhere else (dialogs.go:40).
13. `GenPasskeys` shadows its salt, and every profile is saved without one (keys.go:29). Creating a user whose name is taken replaces that user's keys.
14. `IsBrowsePageActive` does not know the form to join a server or the error dialog (misc.go:76), as `IsChatPageActive` does its own: opening the form
    for longer than half a second ends the page's follower, and by 10 it does not come back.
15. A server joined while a rooms follower of the last one runs: the follower may subscribe to a topic the new session lacks, a nil dereference
    (handlers.go:651), or show another server's rooms. It is the other thing `hasty` excludes.
16. A chat goroutine decrypts with one current room and files with the next (chat.go:65, 78): the row takes an index of a room it cannot be read
    in, and a rejoin of that room fails at it. In `ChatRoom` such messages are `strayed`. All rooms share one list on the screen, which is
    retitled and not cleared (handlers.go:327), so messages of the room before stay under the next one's title.
17. `helpCatchUp` leaves its response topic open when it fails between 224 and 244, and `requestCatchUp` always: the next helper, or the next attempt to join
    that room, is told that the topic exists, the error README.md:11 has as fixed.
18. An answer whose rows do not decompress is a nil that helpers.go:124 dereferences before 125 looks at the error.
19. A members subscription is announced to the hub later than the call for the list (handlers.go:245, 253). Who joins after
    the list was made and is advertised before the announcement is in neither, and is missed until somebody else joins: the list then sent has everybody.

## Not modelled

Cryptography (ciphertexts open exactly under their key; signatures are valid), gzip and JSON framing, libp2p below topics and streams, widgets,
logging. `DeleteOlderThan`, `last_seen` and the CRUD functions nobody calls. The hub's topic cache. Room keys
that are deleted (nobody calls the functions). Two clients at once in `Browsing`: `OthersCreate` stands for the others, and `Hub` has the races between
callers. The chat a joined room starts is `ChatRoom`'s. A hub that comes back with an empty store is in `Hub`, not in `Browsing`.

## Plan

Done, in this order: `Ratchet`, `ChatRoom` and its proofs, `ChatTurns` and its proof, `RatchetThreads`, `History` with `WriteBehind`, `CatchUp`, `Hub`,
`HubEnv`, `Screen` and `Login` with their proofs, `Browsing`, the proofs of `History`, `CatchUp`, `Hub` and `RatchetThreads`, those of `Browsing`,
`EveryMessageOpens`, and the hub's theorems for any number of servers.

Left: two clients that send at once in `RatchetThreads`' detail together with `ChatRoom`; a property of `known` that sees `refreshMembersList` add a room's members to whatever room is current (handlers.go:457); `Hub` model-checked
with two servers, which is more than a run's time allows (its theorems hold for any number).
