# A specification of nodi-be

nodi-be is the backend of a service on which people exchange profile cards: a NestJS server in
TypeScript over MariaDB (Prisma) and Redis, run as several replicas behind nginx. This directory
holds TLA+ modules of the parts of it whose behaviour depends on the order of things, the TLC runs
that check them on small instances, and TLAPS proofs for any instance. Paths below are relative to
the repository.

## Reading the models

A handler is an async function. Every `await` on the database is a point where another handler, of
this replica or of another one, may run; between two awaits nothing interleaves. Every model
therefore has *call slots*: `call[c].pc` names the query that call `c` is about to await, the other
fields of `call[c]` are the local variables that live across the await, and one action is one query
together with the code that follows it up to the next one. A statement of the database, or an
interactive transaction, is atomic. `Fail(c)` ends a call at any query, as an exception, a lost
database or a replica that stops does; what the call wrote before stays written.

Ids are never reused, so a finite set of ids stands for all the rows there will ever be, and a map
from id to owner (`Owner`, `To`) is fixed in advance: which user an id is given out to is not a
choice of the code. Formatting, pagination, validation of DTOs and the contents of cards are left
out.

## Inventory

| part | state | operations | hard because | what makes it correct |
|---|---|---|---|---|
| connection requests (`module/connections/connection-requests.*`) | `card_connection_requests`, unique per ordered pair of cards | create or revive, accept, reject, cancel | the status is checked in one query and overwritten in another; cards vanish or hide in between | only the parties act; only a pending request is answered; accepted means archived |
| connection archive (`connections.service.ts`) | `card_connections`, without foreign keys | establish (inside accept), remove from one's own view | two tables written together; two parties remove at once | append-only; one side never hides it for the other |
| accounts and sessions (`module/auth`, `module/users`) | `users`, `user_auths`, `refresh_tokens` | log in (three ways), refresh, log out, withdraw | lookups and writes in different queries; a withdrawal between them | one account per e-mail; a closed session is reopened by a login only; a withdrawal is final |
| profile cards (`module/profile-cards`) | `user_profile_cards` | create, update, delete, hide on withdrawal | a count and a deletion in different queries | the last card stays; the cards of a withdrawn user are hidden; only owners edit |
| notifications and streams (`module/notifications`, `lib/redis`) | `notifications`; per replica a map of channels; at Redis the subscriptions | create and publish, mark read, list, open and close a stream | subscriptions are sent and not awaited; connections break; replicas restart | subscriptions follow streams; no gap between list and stream |
| OAuth login state (`lib/oauth`, `lib/redis`, `auth.service.ts`) | one-time keys with a time to live; the codes of the providers | issue an address, exchange the code, log in, delete the key | the key is read first and deleted last; replies get lost; two tabs log in with one state | an approval opens one session at most; a state is of no use after its login |
| collections (`module/collections`) | groups and scraps, unique names and cards per user | create, rename, delete groups; scrap, move, take out cards; cascades | checks in another query than writes; groups and cards deleted in between | a scrap is in an existing group of its user, once per card |
| purposes (`module/purposes`, `prisma/seed.ts`) | the position of each purpose | insert, move, delete, seed | a position read before the transaction that shifts the others; a script with an order of its own | positions stay distinct and dense |
| catalogues (`module/skills`, `job-types`, `skill-categories`, `interests`, `personalities`, `affiliation-statuses`, `card-background-images`, `prisma/seed.ts`) | rows that refer to one another, and cards that refer to them | create, change, delete; seed | a deletion checks in one query and writes in another; the seed takes job types out before it puts them in | no reference dangles; a skill has a job type |
| files (`module/files`, `lib/s3`) | uploads under way | upload an image in several sizes | uploads are started and awaited much later; an early rejection ends the process | an address that was answered names a complete set |
| deployment (`scripts/deploy.sh`, nginx) | the file naming the active colour, nginx's own copy, containers | deploy, cancel, roll back, restart | a script may stop between two commands | a healthy colour is served |
| guards, filters, logging, web pages, searches | none that a later call depends on | | | |

How they interact: handlers of connection requests read cards (owner, visibility, existence),
write requests and archive rows, then ask for a notification, whose failure is swallowed
(`connection-requests.service.ts:233-245`). Deleting a card cascades to its requests and to scraps;
withdrawing hides the cards, masks the e-mail, frees the social accounts and closes the sessions in
one transaction (`users.repository.ts:74-96`). A notification is stored, then published on Redis to
the replicas that serve a stream of its user. A login goes through the state in Redis and the
provider before it touches the accounts. Cards refer to purposes and to the rows of the catalogues,
which can then not be deleted; the images of cards and catalogues are files uploaded before, and
nothing but their addresses is kept. The seed script is started by hand (`README.md:115`) and, being
made of upserts, may run again next to the server. `PROJECT.json` lists every component with its
status, and under `hazards` each place where one of these may go wrong, with the properties that watch
it, or with a note where none does.

## Modules

| module | what it is |
|---|---|
| `Connections` | requests, archive, cards as far as the handlers read them, notices |
| `ConnectionArchive`, `RequestLifecycle` | what the archive promises whoever asks for what at the same time; the life of a request when every operation is atomic |
| `Accounts`, `AccountRegistry` | login, refresh, logout, withdrawal; what the `users` table promises |
| `ProfileCards`, `CardShelves` | create, update, delete, withdraw; what users who do one thing at a time see |
| `Notifications`, `NotificationFeed` | rows, streams, channels, Redis; what the list and the tabs promise |
| `Collections`, `Scrapbook` | groups and scraps; what a user who scraps cards is promised |
| `Purposes` | the positions of purposes, the shifts and the seed |
| `Catalogue` | seven kinds of rows, the cards that refer to them, the seed |
| `SocialLogin` | the state in Redis, the codes of the providers, the login that uses both |
| `Deployment` | the script, nginx and the containers of two colours |
| `Files` | conversions and uploads of an image |
| `MC...` | values of the constants for TLC, symmetry sets; `MCParts` has `ProfileCards` and the five parts after `Notifications`, which share no state, one beside the other, and `MCSettling` accounts beside notifications |
| `Connections_proof`, `Accounts_proof`, `ProfileCards_proof`, `Notifications_proof`, `Purposes_proof`, `SocialLogin_proof`, `Catalogue_proof` | theorems and proofs |
| `Parts_proof` | theorems and proofs of `Collections`, `Deployment` and `Files`, and of all the parts `MCParts` joins |

Definitions marked `Mutant:` are not part of any specification. Each is a plausible bug in the
definition that follows it; substituting it makes TLC report the property named in
`PROJECT.json` under `mutants`, which shows that the property depends on that piece of code.

### Connections

`request` and `connection` are indexed by the pair (requester card, receiver card), which is unique
in both tables. `card[x]` is private, public or deleted; the actions `PublishCard`, `HideCard`,
`DeleteCard` are what other handlers do to it, deletion with its cascade.
`createRequest` is `FindRequesterCard`, `FindReceiverCard`, `FindRequestByCardPair`, then
`CreateRequest` or `ReviveRequest`, then `Notify`; accepting is `ReadToAccept` and `AcceptRequest`
(the transaction), and so on. `AcceptRequest` sets the status whatever it has become
(`connections.repository.ts:159-165`) and fails as a whole if the archive row exists, a card is
gone, or the message is too long for the archive's column. The archive's narrow column
(`VarChar(255)`) rejects a longer text under MariaDB's default strict mode; under a lax mode the
text would be cut.

`ConnectionArchive` is the archive with atomic operations and with the requests made of it: `asked`
is, for each slot, who asked for what. Anybody may ask for anything; a row appears only when the
receiver of its pair asked to accept, and is hidden only on a side of the user who asked to remove
it. `Asked(c)` says what a running handler has been asked for, from the user and the pair it was
called with, until the write that serves it. A removal that wrote the column of the other side
(`SideOfOther`) is no step of this module.

### Accounts

`account[u]` is absent, live with an e-mail, or withdrawn with a masked e-mail; `auth[i]` is the user
a social account logs in; `session[<<u, d>>]` is the refresh token of a user on a device. A token is
determined by its user and the second it was signed in, which is why two refreshes in one second
yield the same token: `Seconds` is the set of seconds, and a token may be signed in any of them.
A withdrawal needs an access token, hence an earlier login that stored a session.

### ProfileCards

`Caller[c]` fixes whose calls a slot runs, so that the same specification serves users who do one
thing at a time (`OneCallEach`) and users with two tabs. An update is abstracted to what others can
see of it, `isActive`, which may be left undefined.

### Notifications

`stream[s]` is the replica and the user of an open stream; `channels` are the keys of the replicas'
maps (`redis-pubsub.service.ts:12`); `sent[r]` are the SUBSCRIBE and UNSUBSCRIBE commands under way,
which nobody awaits (`:47`, `:54`); `subscribed[r]` is what Redis will push, `push` what it has
pushed and the replica has not yet received. Opening or closing a stream is one action because the
code does it without an await. `announced` and `current` are history variables that only properties
read. `DropLink` is what ioredis does with its default options, which `redis.config.ts` leaves
alone: confirmed channels are subscribed again, then unconfirmed commands are resent, and messages
under way are lost. `HandleCommand` is Redis.

### Collections

`name[g]` is the row of a group, `scrap[s]` the row of a scrap with its card and group, `cards` the
profile cards as far as a foreign key sees them. A handler that finds nothing answers 404 and changes
nothing, so only finds that succeed are actions: `FindGroup`, `FindGroupForCard`, `FindScrap`,
`FindScrapToMove` and `FindTarget` (the second check of a move,
`collections.service.ts:100-102`), then the write. The unique keys and the cascades
of the schema are conjuncts of the statements. `CreateCard` and `DeleteCard` are what
`profile-cards` does to cards. The order and the pages of a list are left out.

`Scrapbook` has the same rows and the requests made of it. A slot is asked for one thing by one user
(`asked`: close a group, keep a card in a group, move a scrap to a group, take a scrap out), whether
or not the user has any right to it, and answers in one step or drops the request. A scrap is kept,
moved or taken out only by an answer to its own user's request, with the card and in the group that
were named; it goes otherwise only with its group, which its user asked to close, or with its card.
`Asked(c)` is what a handler of `Collections` was called with, from its first find on until it
writes. The requests of the scrapbook are arbitrary and the right to them is checked in its answers,
so a handler whose find skipped the scrap's user (`IsAnyonesScrap`) is no step of it.

### Purposes

`position[p]` is the row. The shift of the others and the write of the one meant are one transaction
(`purposes.repository.ts`), and as positions have no index every shift locks the table, so that two
of them do not interleave; what does is the read of the position a purpose has had
(`purposes.service.ts:22`, `:27`), kept in `call[c].current`. `BeginSeed`, `SeedPurpose` and `EndSeed`
are `prisma/seed.ts`, one statement for each row. Three things really spoil the order, and `order`
records how much is left of it: a position beyond the end leaves a gap ("distinct"); a transaction
that goes by a stale position, or a seed that puts a row where another is, may leave two rows at one
position ("lost"). The properties say that nothing else does.

### Catalogue

A row is the set of rows it refers to. Every reference is a foreign key with `onDelete: Restrict`,
so `Remove` fails while somebody refers to the row and `Insert` and `Rewrite` fail if what they refer
to is gone; the checks that precede them, and that answer the same more politely, are `Find` and may
be out of date. The seed deletes the job types of a skill in one statement and inserts its own in the
next (`seed.ts:353-354`): `interrupted` is set if it stops there.

### SocialLogin

`issued[s]` is what a state was given out for, `key` the states Redis still holds, `code[k]` what the
provider handed a code out for, `spent` the codes exchanged. `GetState`, `GetToken...`, `GetProfile`,
`Login`, `DelState` are the awaits of `AuthService.login`; `Login` stands for what `Accounts` models
in detail. The three providers differ in what they compare (`lib/oauth`): Google and Kakao the
address to return to, Naver the state. `Fail` may come after the provider has taken the code. Two
logins may pass the check of one state before either deletes it, and a login that fails between its
session and `DelState` leaves the state for another. Each of them needs a code of its own, so an
approval still opens one session, but the state is used twice. `ReturnedStatesAreGone` says what is
left of single use: it is about logins that begin after another one with the state has returned.

### Deployment

`file` is `nginx/active/upstream.conf`, `loaded` what nginx has read, `container` the containers of a
colour, `script.pc` the next command of `deploy.sh`; the comments in the module carry the numbers of
the script's own sections. `Stop` is `set -e` or a lost connection before any command;
`RestartNginx` may happen at any time. `settled` becomes true when a script gets through, and false
when one stops between the file and the reload: the next script then takes the colour that is
serving for the one to replace (`deploy.sh:106-110`). `ServiceGoesOn` excepts the first boot and
that case, until a later script gets through.

### Files

A slot is one upload request. `Convert` starts the upload of each variant as soon as it is
converted and goes on without waiting (`files.service.ts:84-96`); `Awaited` says that `Promise.all`
has been reached. A rejection before that is handled by nobody and ends the process with everybody's
requests (`EndProcess`), one after it fails the request only.

## Runs

All bounds are in the `.cfg` files; the instances are as small as still lets every pair of steps
interleave.

| run | instance | question |
|---|---|---|
| `connections_concurrent` | two users with a card each, two calls | What survives any overlap of two handlers, with cards coming and going? |
| `connections_sequential` | one call, one message, at most one notice kept (`NoticeLimit`) | With handlers one at a time, do requests follow the atomic lifecycle, is the right message archived, are notices true, does every call return? |
| `connections_overwrite` | two calls | *violated*: is only a pending request answered? |
| `connections_both_ways` | one call | *violated*: are two cards connected at most once? |
| `connections_long_message` | one call, one long message | *violated*: can a pending request be accepted? |
| `accounts_concurrent` | two users, two addresses, one Google and one Kakao account, one device, two seconds, two calls | Do accounts, identities and sessions stay consistent? |
| `settling` | the accounts with one address and one second, or the notifications of one user, two of them, with two tabs and one replica; without symmetry | Does every call return, and is a withdrawn account left alone in the end? Is every stream that stays open subscribed in the end, and does what is published arrive? |
| `accounts_sign_up_again` | as `accounts_concurrent` | *violated*: can a withdrawn user's social account sign up again? |
| `accounts_logged_out` | as `accounts_concurrent` | *violated*: has a withdrawn account no open session? |
| `profile_cards_last_card` | one user with two calls | *violated*: does the last card stay? |
| `parts` | one part at a time, two calls each: two users with three and two profile cards, one call each; two users with three groups, two scraps and two cards; three purposes, positions up to 3, a seed of two; skills with two job types; the other kinds of rows with a card; two origins, states and codes; the deployment; two uploads | Do cards of users who do one thing at a time, scraps, purposes, catalogues, logins, deployments and uploads keep what they promise? |
| `notifications` | two users, one notification, two tabs, two replicas, one call, two commands under way when a stream opens (`CommandLimit`) | Do subscriptions follow streams, and do up-to-date tabs miss nothing? |

Why the bounds are enough. Each invariant speaks of one pair of cards, one user or one channel, and
each race needs two calls: the second card, user, tab or replica is there to be confused with the
first. Two seconds tell equal tokens from different ones. Three cards let a user delete one and
still have two. A queue of two commands holds an unsubscription with the next subscription behind
it. A single notification suffices because no property relates two; handlers of
notifications share only the row, so one call at a time overlaps with streams, not with another
call. Symmetry is used where the swapped values are interchangeable in every constant and
only safety is checked. The theorems remove the bounds for what they cover.

Deadlock is checked except in `profile_cards_last_card` and `parts`: every user may have withdrawn,
or states and codes have run out, and the system really has nothing left to do.

`parts` checks seven modules in one run. They share no variable, so in a behaviour of all of them
together the steps of the others leave each part as it is, and a property of one part holds in that
behaviour if and only if it holds in the one where the part runs alone; `Parts_proof` proves the
direction that matters (`TogetherHold`). `part` chooses which one
runs, and the variables of the others keep their initial values. The ids `i1`, `i2`, ... are used by
every part for its own rows; only those are permuted that are alike in all of them. `Catalogue` has
two instances, one with skills and one with everything else a card may refer to. `Purposes` needs
three rows, since a move with two cannot confuse the ones in between; `PositionLimit` lets a gap
appear. `Deployment` is finite as it stands and has no bound at all.
`settling` runs the accounts or the notifications in the same way; what is not chosen has nothing
under way, so that its fairness asks for nothing.

### Findings

Six runs show the code doing otherwise than its comments, schema or documentation say; the
quotations are in `PROJECT.json`.

- A rejection or cancellation that checked `PENDING` before an acceptance committed overwrites
  `ACCEPTED`. The pair stays connected, and `OverwrittenStaysOverwritten` shows that the status
  never becomes `ACCEPTED` again.
- Two cards that request each other are connected twice, as the unique keys are ordered pairs.
- A message of 256 to 500 characters fits the request and not the archive: such a request cannot be
  accepted.
- A login that links a second social account while the user withdraws leaves it linked to the
  withdrawn account, and it can never sign up again.
- A login that found its user before the user withdrew opens a session of the withdrawn account,
  although a withdrawal ends the sessions of all devices (`users.repository.ts:69`,
  `users.controller.ts:110-111`). The session can be refreshed; what it does not open is the rest of
  the service, whose guard refuses withdrawn users. `WithdrawnIsLeftAlone` shows that from some time
  on no further login reaches the account.
- Two deletions of a user's last two cards both succeed.

### What the properties except

Some properties hold only when a race or a stop is excepted, which their definitions do by name.
They say that nothing else goes wrong; the case itself is not caught. Three of these cases contradict
a comment or the documentation as well:

- With two overlapping calls the archived message can be that of an earlier request: the accepting
  call read it before a cancellation and a revival. The schema says it is copied from the request
  when the connection is established (`schema.prisma:337`). `ArchivedMessageIsTheRequests` and
  `RequestsFollowLifecycle` are about one call at a time.
- An update that passed the guard before its user withdrew can publish the card afterwards, although
  a withdrawal takes all cards out of the public lists (`users.controller.ts:112`,
  `users.repository.ts:70`). `WithdrawnIsHidden`, `KeepsACard` in `parts` and `CardsAreShelved` are
  about users who do one thing at a time.
- Two overlapping logins, or one that fails before it deletes the state and another one, use a state
  twice, although it is consumed once to prevent reuse (`auth.service.ts:122`). What bounds this is
  said above under `SocialLogin`.

No document excludes the others:

- Two moves of purposes that overlap, or a seed after administrators have changed the order, may
  leave two purposes at one position, and nothing repairs that (`order = "lost"`); an insertion
  beyond the end leaves a gap (`order = "distinct"`). `PositionsAreDistinct` and `PositionsAreDense`
  hold otherwise.
- A seed that stops between its two statements leaves a skill without job types (`interrupted`).
- A deployment interrupted after it wrote `upstream.conf` and before nginx reloaded
  (`scripts/deploy.sh:134-138`) leaves a file that names the colour not served; the next deployment
  then recreates the one that is (`settled`). `ServiceGoesOn` holds in all other cases.
- A publication that fails is not made again: tabs that are open learn of the notification when they
  list. A tab that lists before Redis has handled its subscription can miss what is published in
  between. `CurrentTabsMissNothing` is about publications that went out and tabs that list later
  than that.
- `WithdrawalIsFinal` is about withdrawals that no login of the same user overlaps; the run
  `accounts_logged_out` shows the others.

Met on the way, and the subject of no property: a logout that presents a token which a refresh is
just replacing revokes nothing, and two refreshes with one token are both answered, the earlier
answer with a token that no longer exists; a subscription that the client library gives up on, or an
upload that is rejected while another variant is still being converted, ends the process, the latter
with objects left behind.

### Fairness

Safety runs assume none. `connections_sequential` and `settling` assume weak fairness of
`Step(c)` for each call: an awaited query is answered or fails, and the event loop resumes the
call. Nobody has to start a call, nothing has to fail, and users and cards may stop changing.
For notifications, `settling` assumes weak fairness of `HandleCommand(r)` and of `Deliver(r, n)`, the
arrival of one message: Redis handles what it is sent, and everything it pushes arrives as long as the
connection lives. Messages of a connection keep their order, which the set `push` does not record;
without fairness for each message, one that is published again and again could hold up another
forever, which takes two notifications to see. No fairness is assumed of streams, of publications or
of failures. `OpenStreamsAreConfirmed` supposes that the connection to Redis breaks finitely often,
since a connection that breaks whenever one command has been handled keeps the ones behind it waiting
forever. One replica is enough for it: replicas share
the rows only, and each has a queue and a connection of its own. One user is enough too: a command
about another user is one more before it in the queue.

## Proofs

Each `_proof` module extends its specification. The provers check every step for any finite or
infinite set of users, cards, devices and calls, under the named assumption on the constants in each
module (`ProfileCardsAssumption` also asks for finitely many card ids, which a count needs).

- `Connections_proof`. Type correctness; then `Inv`, the conjunction of `AcceptedIsArchived`,
  `RequestsAreGrounded`, `AcceptedNoticeIsTrue` and `CallsStayChecked`. The last is the
  strengthening: an acceptance leaves its archive row behind, so a call that announces it must know
  the row is there, and an insertion is grounded because the call still knows whose cards they are.
  From `Inv` follow the action properties and the refinement of `ConnectionArchive`: the
  user of a removal is the one whose side it writes, since the side is computed from the row that the
  call itself checked.
  Under `OneCall` (all slots are one), a second invariant adds what a call has read and nobody else
  can have changed, cards excepted; it yields the refinement of `RequestLifecycle` and
  `ArchivedMessageIsTheRequests`. `HandlersAdvance` counts the queries a handler has yet to await: each
  answer leaves fewer, and no other call changes the number.
- `Accounts_proof`. `TypeOK` and `CallsStayChecked` need each other: a session that is rotated
  exists because the call found it. From them `OnlyLoginOpensSession`, `WithdrawalIsFinal` and the
  refinement of `AccountRegistry`. `HandlersAdvance` counts queries as above, and `WithdrawnGetNoLogins`
  shows that the logins under way at a withdrawal are the last ones of that user.
- `ProfileCards_proof`. Without an assumption on calls, types and `OnlyOwnersEdit`. Under
  `OneCallEach`, which the instance in `MCParts` satisfies, `SInv` adds that a call about to delete
  still has another card besides the one it deletes, and that the caller of an active call is live;
  from it `KeepsACard`, `WithdrawnIsHidden` and the refinement of `CardShelves`.
- `Notifications_proof`. `Inv` joins the types, `SubscriptionsFollowStreams`,
  `CurrentTabsMissNothing` and two strengthenings: `CurrentAreConfirmed`, that the subscription of an
  up-to-date tab is in effect and no command about it is under way, without which a publication
  could pass the tab by; and `ToldIsStored`, that whatever is announced, pushed or seen is a stored
  row. The lemmas about queues say what a replica will be subscribed to after a command is
  appended, handled, or sent again ahead of the rest. From `Inv` follows the refinement of
  `NotificationFeed`. It also says what fairness has to do: a message an up-to-date tab waits for stays
  on its way until it arrives there (`MessagesGetThrough`); nothing new is sent about a channel that
  stays served, so the commands under way only come nearer (`SubscriptionsGetThrough`), and when they
  are handled the channel is confirmed (`QuietIsConfirmed`).
- `Purposes_proof`. Types, distinct positions and dense positions are inductive together: a move
  keeps the positions dense because they are distinct, and a shift stays above zero because they
  are natural numbers.
- `SocialLogin_proof`. A code that was exchanged is held by one call at most, which has yet to open
  its session, and that call goes by what its state was given out for. With `HeldOnce` and
  `CallsFollowStates` the property is inductive; the second theorem follows from keys and returned
  states being disjoint.
- `Catalogue_proof`. Types, `ReferencesResolve` and `SkillsKeepAJobType` are inductive together: a
  foreign key answers for every reference at the moment it is written, and a row may go only when
  nothing refers to it, so it does not matter how old a check is. A skill can only lose its job types
  to the seed, whose position says which one, and an update of the service writes them in one
  statement.
- `Parts_proof`, on scraps. `ScrapsStayHome` becomes inductive with `CallsHoldTheirOwn`: the groups and
  scraps a call has found belong to its user, and ids do not change hands, so a write may fail but
  not go astray. The refinement of `Scrapbook` needs the same: what a handler was asked for stays in
  its slot until it writes, and once it writes, the group and the scrap it names are those of the
  user who asked, so that each write is the answer to the request in its slot and each end without
  one drops it.
- `Parts_proof`, on the deployment. That the colour served is healthy is not inductive, since nginx
  may be restarted and the script may go back. `DeploymentInv` says for every position of the script
  which colour the file names (`FileFollowsScript`), whether nginx has it, and which colours are
  healthy (`ColoursAreHealthy`): the one it came from for as long as it may go back, the one it goes
  to from the moment it has waited for it, hence both in between. `BootIsBlue` is the first boot,
  where nothing is promised. The proof has a step for each command, for `Stop` at any of them, and
  for `RestartNginx`.
- `Parts_proof`, on uploads. `AnsweredImagesAreComplete` is inductive with the types: an answer is
  given when all uploads are stored, and nothing but the next request in the slot takes a stored
  upload away, neither a rejection nor the end of the process.
- `Parts_proof`, on all parts. `Together` lets any of them step at once, over one set of variables.
  `TogetherHold` shows that each keeps its invariant, from the theorems of the components, which are
  instantiated with the constants of `MCParts`; `AloneIsTogether` shows that the run's specification,
  in which one part is chosen, is a special case. So every property of the run `parts` is a theorem
  of `PartsSpec`, and it was no loss to run the parts one at a time.

Assumptions on constants are named in the module that declares them, and TLC evaluates them
(`PartsAssumption` in `MCParts`): the absent value is none of the values kept
(`SocialLoginAssumption`, `DeploymentAssumption`, and parts of the others), the kinds of rows of a
catalogue have no row in common, as they are ids of different tables (`CatalogueAssumption`), and
owners are users, and sizes and limits are natural numbers (`CollectionsAssumption`,
`ProfileCardsAssumption`, `PurposesAssumption`).

Every invariant and every action property and refinement that a run checks is proved. Only
model-checked are the liveness properties (`CallsReturn`, `WithdrawnIsLeftAlone`,
`OpenStreamsAreConfirmed`, `PublishedNoticesArrive`): they need fairness and with it ENABLED, which
the prover does not handle. What they need besides is proved for every value of the constants, in the
theorems named `HandlersAdvance`, `WithdrawnGetNoLogins`, `MessagesGetThrough`,
`SubscriptionsGetThrough` and `QuietIsConfirmed`: what is awaited comes nearer with every answer,
command or message and is not set back. That it comes at all is what TLC checks.

## Not modelled

Guards, filters and logging keep no state: the guard's read of the user is the first step of the
calls that depend on it, and what a filter turns into an answer is `Fail`. Public pages, lists and
searches read one snapshot. The nickname and picture a user may change
(`users.service.ts:33-35`), and the text and pictures of cards and catalogues, are data no property
tells apart. What providers, S3 and the image library do inside, HTML pages and validation are input
and output; they appear as the outcomes the code distinguishes. The isolation of MariaDB's statements
is assumed as stated above; a row locked by a concurrent transaction makes a statement wait, which
in the model is the order in which the two run.
