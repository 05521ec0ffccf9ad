# A TLA+ development for ratbox-services

ratbox-services is an IRC services daemon: one process that links to an IRC
network as a server, introduces pseudo-clients (ChanServ, UserServ, ...) that
users talk to, and keeps what they register in an SQL database. This directory
models it in TLA+, model-checks the models with TLC and proves theorems about
them with TLAPS. Paths below are relative to the repository's root.

## The system

The daemon is single-threaded: `io_loop()` runs timers (librb events) and socket
callbacks one at a time, and a handler runs to its end. What makes it hard is not
threads but

- **the process ending** between two SQL statements: `rsdb_exec()` calls `die()`
  on a database error, `sig_term()` calls it from a signal handler;
- **lines that cross**: the network acts while our lines are on their way, and a
  command may be handled while older lines of the network are unread;
- **other programs** that write to the database while we do;
- **timers** that look at what other handlers left behind;
- **two or three copies** of everything: memory, the database, the network.

| Part | Modules | How they interact |
|---|---|---|
| Uplink connection (`src/io.c`) | `Uplink` | brings the network's lines; its loss splits all servers |
| JupeServ (`src/s_jupeserv.c`) | `JupeServ` | hooks on SQUIT, SERVER and the end of a burst; a table |
| UserServ, NickServ (`src/s_userserv.c`, `src/s_nickserv.c`) | `UserServ`, `UserReset` | accounts that ChanServ, MemoServ and the network refer to |
| Table hooks (`src/dbhook.c`) | `UserSync`, `HookQueue` | other programs register accounts through them |
| MemoServ (`src/s_memoserv.c`) | `MemoServ` | rows that refer to accounts by id |
| ChanServ's access lists (`src/s_chanserv.c`) | `ChanAccess` | freed with the accounts; tables |
| ChanServ on a channel (`src/s_chanserv.c`, `src/channel.c`, `src/c_mode.c`) | `ChanHooks`, `ChanServ` | hooks run from inside the channel handlers |
| Masks (`src/match.c`, `src/cidr.c`) | `MaskMatch` | what a ban matches, for ChanServ and BanServ |
| ChanFix (`src/s_chanfix.c`) | `ChanFix`, `ChanScores` | hooks on channels; score tables |
| BanServ (`src/s_banserv.c`) | `OperBans`, `RegexpBans` | bans on every server; hook on new clients |
| Oper blocks (`src/conf.c`, `src/newconf.c`) | `OperConf` | held by clients, dcc connections and split opers |
| Limits (`src/service.c`, `src/email.c`, `src/s_userserv.c`) | `RateLimits` | in front of every command, registration and mail |

`PROJECT.json` lists every component with its status, the hazards of the code
with the properties that cover them, and the lines each definition models.

### How the runs put components together

ChanServ's hooks and the channel handlers are one specification, and so are
accounts, nicknames and the network's idea of logins. Components that share no
state are checked in one run as a sum: a variable `focus`, chosen at the start,
says which component a behaviour follows, and the others stay as they started.
Every behaviour of each component is there, and the states add up instead of
multiplying (`MCServices`, `MCNetwork`, `MCUplinkSync`).

## Modules

**ChanAccess.** Registration, the access list commands, the operator commands,
expiry and the drop of accounts. `accounts`, `chans`, `csuspend` and `members` are
the structures in memory, `db` the tables as our connection sees them, `disk` what
the next process would load. A handler is cut at its SQL statements and `run` says
where it is; only `Crash` can come between its steps. Times are a choice.

**JupeServ.** Votes (`pending`), jupes (`active`), their table, and the part of the
network the service sees: `linked` is our `server_list`, `net` and `held` are what
the network has, `inbox` the lines it sent and we have not read. What we send takes
effect at once, after all that `inbox` holds: delaying both directions would add
nothing, as only their sum can be observed. The network's side is external: a
name we hold cannot link, a SQUIT for it removes it. `crossed` is history: names
whose server had gone out on the line when our jupe arrived.

**Uplink.** `connect_to_server()` from its one-time event, `connect_callback()`,
`check_server_status()` (a tick of 5 seconds), reading, the handshake lines,
`signoff_server()`, write errors, and the freeing of dead connections. `quiet` is the
true time since data came, `age` what the code believes. Times saturate above every value they
are compared with. A freed client's flags read as anything. `conn = "ended"` is a process
that is gone, which `c_server()` can bring about (`TS6Checked` below); nothing starts it again.

**UserServ.** Accounts are structures and not names: a client may point at a freed
one, and a name may be registered again. `suser` is what the network believes; it
survives splits and restarts and is repeated by the next burst. Commands of users
and operators, burst logins, nick changes and collisions, RELEASE and REGAIN,
expiry, the end of the process between the statements of a drop, and the reload.

**UserReset.** The mails of RESETPASS and RESETEMAIL: `mails` is every token ever sent
with what it was sent for, the two tables hold one row a name, `spent` is history.

**UserSync, HookQueue.** `rsdb_hook_call()` as three steps: COUNT, SELECT with the
callbacks, and the transaction of DELETEs and scheduled statements. Another program
inserts between them and the process may be killed. `HookQueue` is the abstract
specification: taking a batch of the oldest rows and carrying them out is one step.
`RowsTakenAtomically` is that `UserSync` implements it: the queue maps to the table
`users_sync`, the users to the table `users`.

**MemoServ.** Memos by account id; with `AutoIncrement` ids are never given twice
(MySQL, PostgreSQL), without it SQLite's INTEGER PRIMARY KEY gives the highest in use plus one.

**RateLimits.** Four windows: commands of a client and of a service, registrations,
registrations of a host, mails. `log` is what was let through, and when.

**OperConf.** Blocks with their counts, the clients, dcc connections and entries of
split opers that hold them, and rehash in its three parts.

**OperBans, RegexpBans.** The table of bans and what each server holds (external, from
what `push_ban()` says of servers), with splits, SYNC, the timer and expiry; and
the regular expressions with negations, as rows of two tables and the list loaded from
them, deleted a statement at a time.

**ChanHooks, ChanServ.** `ChanHooks` has the hooks as functions of a world (channel,
registration, caches), because the C handlers call them in the middle of their own
work; `ChanServ` has one action for each handler, command and event. A command's
trailing hooks are part of its action. `misused` is set when a handler
goes on with a channel it has freed.

**ChanFix, ChanScores.** The fix of one channel with the ids and scores it cached, and
apart from it the three score tables with the two events a statement at a time.

**MaskMatch.** `match()` one turn of its loop at a time, with pointers as indices and
the terminating zero behind the last character; `collapse()` and `match_cidr()`. It is
checked against a definition of what a mask stands for that never goes back (`Glob`: from
the last character of the mask to the first, the places of the name from which on the rest
of the mask matches) and a bit by bit one of an address range (`InRange`). Addresses of one
family have the same number of bytes, which is part of `MatchAssumption`.

## Runs

| Run | What it shows | Instance and why it is enough |
|---|---|---|
| `access_list` | `OneOwner`; `Mirror`: memory equals the tables between handlers; `GrantsJustified`: a level is given, and the suspension of a row that stays lifted, only by somebody entitled or the succession; `RemovalsJustified`: a level is lowered, a suspension set and a row deleted only by somebody who outranks it, an operator or with the account. Who it was is told by the row's `lastmod` or the caller | One channel, three accounts (actor, target, successor), levels on both sides of every threshold; 3.5 million states |
| `access_crash` | `AtMostOneOwner`, `ReferentialIntegrity` with the process ending anywhere | Two channels let a drop be cut between them; 2 million states |
| `network` | `VotesCounted`, `JupesHold`, `NothingElseHeld`; `FixHeld`, `OpsEarned`; `SamplesCounted` | Votes: three servers, thresholds 4 and 3 with scores 1 and 2, so that they are met exactly and passed. Crossing: two uplinks, three unread lines, so that a SQUIT, a SID and the end of a burst cross a command. Fix: two members, each with a user@host; three were checked once (1.5 million states). Scores: days of two samples, two days kept, one crash; 1.1 million states |
| `uplink_hooks` | `OneTimer`, `HandshakeEnds`, `ReconnectsIfSent`; `SyncNamesAgree`, `RowsTakenAtomically`, `RowsUsedUp` | Timeouts of 2 and 3 ticks, so that each can come before and after every other event; three rows for two names and one kill, so that two rows of a hook meet; 61 thousand states |
| `services` | `UserMirror`, `LoginsInverse`, `FreedUnderUser`, `SuspendedUnused`, `NetworkAgrees`; `MemoAddressee`; `TokensCurrent`, `AddressProven`; `WindowBound`, `ServiceBound`; `RefCounts`, `PrivsCurrent`; `SyncedAgree`; `NegationsFollow`; `MatchExact` | Two clients, two names, two nicknames and four structures, so that a name is registered anew under a client of the old one; three mails; windows of two seconds in six; three places for two oper blocks; a ban of each of two types; three expressions with ids that come back. Masks and names of up to four characters with `MATCH_MAX_CALLS` 7 (the program has 512), a limit that some of them meet; lengths up to 5 with a limit that none meets were checked once. Bytes of two bits; 0.6 million states |
| `channel_ops` | `PresenceFlagged`, `StoredTimestamp`, `NoDisallowedOp`, `ModesEnforced`, `EmptyChannelLeft` | Two clients with and without access, two timestamps, RESTRICTOPS, AUTOJOIN and one enforced mode; 77 thousand states |
| `channel_bans` | `ChannelKept`, `BannedStayOut` | A mask that matches both clients, ban levels above one and both of them; 0.25 million states |
| `access_crash_owner`, `uplink_write_error`, `chan_unban`, `oper_freed`, `regexp_negation` | see Findings | |

`CHECK_DEADLOCK FALSE` stands where a bound on time, mails, rows or ids ends a
behaviour, or where a component in focus may have nothing left to do.

### Fairness

- `Uplink`: `WF(ReadDone)` (a reading has finitely many lines), `SF(check_server_status)`
  and `SF(connect_to_server)`: the event loop runs due events between readings,
  however often the uplink sends. Nothing is assumed of the network: it may accept,
  refuse, stay silent or close at any time.
- `UserSync`: `SF(CountRows(h))` for each hook, which is a timer of its own, and `WF` of
  the two steps that follow in the same call.
- `ChanServ`: `WF(e_chanserv_partinhabit)`, a timer. Nothing is assumed of users.

In the sums the conditions are those of the component in focus.

## Findings

Each is a run whose property states what a comment or document says, and which
TLC shows the code does not do. `PROJECT.json` has the quotations.

| Run | What happens |
|---|---|
| `access_crash_owner` | An end between the DELETE of the owner and the UPDATE of the successor leaves members without an owner for good. |
| `uplink_write_error` | After a failed write no reconnection is ever scheduled. |
| `chan_unban` | A refused UNBAN stays refused after the ban has expired, as expiry does not change `bants`. |
| `oper_freed` | A block left out by a rehash is freed by its last user and stays in `conf_oper_list`. |
| `regexp_negation` | One negation on an expression spares everybody the expression matches. |

### Observations

Met while modelling. Those with a definition are not part of a run: TLC violates the
definition when it takes the place of the properties of the configuration named.

- `DropDeregisters` (`access_crash.cfg`): a channel left without members by a crash
  cannot be dropped, as `destroy_channel_reg()` frees it only through its last member.
- `UplinkNotJuped` (`network.cfg`): `valid_jupe()` looks at the uplink of the moment
  ("cant jupe our uplink", `src/s_jupeserv.c:275`); a name juped before can become the uplink.
- `PingsAfterSilence` (`uplink_write_error.cfg`): `read_any()` sets `last_time` behind an
  endless loop, so PINGs are sent after fresh data (doc/example.conf:39).
- `TS6Checked` (`uplink_write_error.cfg`): SERVER behind a PASS without TS6 in the same
  reading passes the check of `c_server()` ("This will also cover the TS6 check",
  `src/client.c:946`), which then copies a sid that was never set: the process ends.
- `GrantsJustified` says nothing of a suspension that goes with its row: somebody of level
  150 may delete a user suspended at 200 and add them again, although
  `help/en/chanserv/suspend` wants level 200 for an UNSUSPEND.
- `BanLimit` (`chan_unban.cfg` with two masks): the limit is tested with `>`, so that a channel has one ban more than
  `max_bans` (`src/s_chanserv.c:3383`); the error path reads `chptr->name`, and `chptr` may be NULL.
- `IgnoredLongEnough` (`services.cfg`): `client_flood_ignore_time` is never read
  (doc/example.conf:60-63, `src/service.c:848`).
- `MemoAddressee` with `AutoIncrement = FALSE` (`services.cfg`): with SQLite an account
  reads the memos of one that had its id.
- `OpsEarned` with `UniqueIds = FALSE` (`network.cfg`): with SQLite a fix may op a user@host that was
  given the id of another, removed while the fix was running.
- CLEARMODES takes off enforced modes (help/en/chanserv/set:14); an SJOIN with an equal
  timestamp and no key clears the key (`src/channel.c:957`); an enforced key or limit
  alone is not set again (`src/s_chanserv.c:1091`); under NOVOICES a voiced joiner
  keeps AUTOJOIN from being looked at (`src/s_chanserv.c:1462-1470`).
- SYNC for one type of ban passes a time more than its format has for permanent bans
  (`src/s_banserv.c:548-552`). `autosync_frequency` 0 does not disable it, as values
  below 60 are ignored (`src/newconf.c:1090`). ADDREGEXPNEG looks for duplicates by the
  expression and not the negation, and a new client is compared with expressions only until the first that matches.
- `match_cidr()` answers 1 for addresses of different families (`src/cidr.c:375`), where its
  comment says "1 = Matched 0 = Did not match". `MatchExact` leaves them out.
- ChanFix: BLOCK, UNBLOCK and ALERT update by the name as typed (`src/s_chanfix.c:1698`);
  BLOCK does not stop a fix that is running; `highest_score` is never refreshed; an end between INSERT and
  DELETE counts samples twice; MIN() of an empty table is NULL and given to `atoi()`
  (`src/s_chanfix.c:928`); the sums of one column are read from a second
  (`src/s_chanfix.c:780`, `:791`); `SET AUTOFIX` looks at the wrong argument; modes and bans are removed after
  other times than doc/chanfix.txt gives.
- SIGTERM ends without the last synchronisation of `last_time` (`src/rserv.c:528`), and
  registering a nickname sets it without marking it to be saved (`src/s_nickserv.c:271`).

## What is proved

For all values of the constants that satisfy the named assumptions next to their
declarations (levels are integers, scores, times and bounds natural numbers, the values
that stand for "none" are no names, a character is not the terminating zero, `INHABIT` is
not an option users set, some command costs most, a byte is below the power of two of its
bits and addresses of one family are equally long). No set has to be finite unless a list
here says so.

- `AccessProofs`, about channels: `CrashSafety`, `References`, `Uniqueness` and `Mirroring`
  with crashes, `Ownership`, `Grants` and `Removals` without. `IInv` adds `RunInv` (what
  each point of a handler implies), `Sync` (how memory and tables differ inside a handler),
  `MemInv` and `DiskInv`. The properties alone are not inductive: in the middle of a handler
  memory and tables differ, and only `Sync` says how they meet again. `Ownership` needs
  `Owned` besides: a channel has its owner unless it is being registered or taken apart.
  `Removals` needs `Authorised`: DELOWNER by e-mail is confirmed in a later step, and who
  asked is still not suspended then. About the tokens of UserServ: `Tokens`,
  `AddressChanges`. `ResetInv` adds that every token in a table was made, and that a row
  with an address was confirmed by a spent token for this registration, the history the
  second half of RESETEMAIL relies on.
- `ChanServProofs`: `HandlersKeepChannel`, `PresenceExplained`, `TimestampSaved`,
  `OpsAllowed`, `ModesKept`, `BansHold`. As each action ends in a world made from the
  one before by hooks, the lemmas are about worlds. `Along` is what a hook
  that works through members keeps, whatever it does to each of them: the rights of
  everybody, a channel that is there, and `Shaped`, `Present`, `Stamped` and `Enforced`
  where they hold. It is transitive, so that it passes from one member
  (`JoinMember`, `KickMember`) to any number of them. `Sound` is the inductive
  invariant; what it adds to the three state properties is `Shaped`: a channel is there
  if and only if a user or ChanServ is on it. A handler that removes the only user
  relies on this when it lets ChanServ join first. `Fine` is what each of
  the actions is shown to keep; the action properties follow from it. For
  `BansHold`, `Looked` says of a member of the joining line that was looked at that they
  were kicked or are not barred, and that no later member changes this.
- `AccountProofs`: `Logins`, `Freed`, `Suspended`, `Agreement`, from one invariant
  (`LoginInv`): `Held` says of each client which structure it may point at and what the
  network believes of it, the lists are inverse, and nobody is known while the link is down.
  The four properties are not inductive one by one: that a freed account is only pointed at
  by clients of a never verified one needs that the list of a live one is complete.
  `Mirrors` rests on `Mirrored`: no two live structures have one name, which is why a row
  can be told from a name. `Addressed`, under the assumption that ids are not given twice,
  which SQLite does not keep: `MemoInv` adds that every id in either table was given.
- `NetworkProofs`: `SingleReconnect` with write errors; `AlwaysRescheduled` when
  `reconnect_time` is longer than the check period and no write fails. The strengthening is
  `DeadWaits`: a dead connection is forgotten before its reconnection fires. `NamesAgree`,
  and `HookAtomic`: the table hook implements `HookQueue`. `SyncInv` carries the step
  correspondence: between the callbacks and the commit the rows read are still the oldest of
  the hook, though others are added, and `Planned` says that what was scheduled does to the
  table `users` what the rows do one after the other.
- `PolicyProofs`: `BlocksCounted`, `FlagsCurrent`: `OperInv` adds that each block has
  finitely many holders and `Listing`, what a reading of the file leaves. That a rehash
  keeps the counts right is shown along the list of split opers that it releases.
  `WindowsBounded`, `ServicesBounded`: what a log lets through is a sum over any of its
  stretches; `Tracked` says that the counter is the sum since its window began, and bounds
  every stretch that ended before. `LoadFits` says of every second that what was carried
  out since then is still the load of the service, or was relieved.
- `OperProofs`: `SyncsSuffice`: `Explained` says of servers that were *not* synced that what
  they hold is nothing, what is due, or something the next sync sends a line about.
  `Persistence`, `Voting`, `Holding` of JupeServ; the invariant adds that a vote has
  finitely many servers, which the counting argument needs. `Jupes`: `HoldInv` adds what is
  on its way (`Covered`: no unread line links a juped server before one splits it), as a
  jupe and the lines about its name cross. `Negating`: `RegexpInv` says that the list is in
  the order of the ids and made of the rows (`Follows`), and that ids are unique and a
  negation has a parent of its own registration (`TablesOK`). A new id is above all in the
  table, so appending keeps the order; and as there is only one way to order rows by id, the
  list is what a restart loads. An id comes back only after its negations are gone, as they
  are deleted first.
- `MatchProofs`: `InBounds`: `match()` stays within its strings for all masks, names and
  limits. The strengthening: since the last `*` as much was passed of the mask as of the
  name. When the mask is used up and the loop would step to the end of the name, nothing was
  passed, so that both are at their end and it does not step on. `Matching`: its answers,
  for all masks, names, alphabets and limits. `Table` holds, of each place in the mask, the
  places of the name from which on the rest of the mask matches; it is what `Glob` computes.
  `Progress` is the loop invariant in its terms. Before the first `*` the mask matches if it
  does from here. Behind one it matches if what follows the `*` does from some place at or
  behind the one the loop goes back to, and wherever that is the characters passed since
  fit too. This is why only the last `*` has to be remembered: whatever matches from a place
  after a `*` matches from all places before it. A mask that is used up before the name, and
  ends in a `*` and `?`s, matches as there are enough characters left for them
  (`StarMatches`). `CollapseMeans`: a mask without repeated `*`s stands for the same.
  `MaskBits`: comparing whole bytes and the upper bits of one more is comparing the first
  bits one by one, for every width of a byte.
- `ChanFixProofs`: `Fixing`, and `Earning` under the assumption that ids are not given
  twice. `EarnedInv` ties each id to the user@host it was made for, in the table and in the
  scores a fix has cached. `Counting`: its invariant looks at the tables as if the DELETE
  that is still to come had been carried out: then each sample of a day that is kept is
  counted, at least once and at most twice as often with every crash, which is where the
  DELETE is lost. Without a crash a sample is in one place only, the first two tables reach
  back to yesterday, and the history no further than `CF_DAYSAMPLES` days, so that the score
  is at most a point a sample. This needs days of at least two runs, two days that are kept
  and loops of at least two rounds (`SamplesAssumption`; the program has 288, 14, and 5 and
  10).

Loops of the code over a list are recursive functions, and the proofs about them need an
induction over the length. The library's induction theorems have an operator as a
parameter, which the provers here cannot instantiate. The lemmas `LeastNat` (a set
of numbers that is not empty has a least one, from the well-founded order of the naturals,
with the set in place of the operator) and `UpTo` (a set with 0 that is closed under
successor up to n has all of 0..n) take its place, and a lemma for each recursive function
(`...Stages`) shows that it goes through the values its body says.

`RegexpBans` sorts and filters by rank (the k-th row is the one with k ids up to its own),
and not by a recursion, so that the proofs need only facts about cardinalities; what
`collapse()` keeps of a mask is treated in the same way.

Only model-checked: what must eventually happen, `HandshakeEnds`, `ReconnectsIfSent`,
`RowsUsedUp` and `EmptyChannelLeft`. Liveness under fairness is outside the prover's reach.
Every safety property of a passing run is a theorem.

## What is not modelled

- Formatting, languages, help files, logging, statistics, the configuration grammar,
  and the commands that only list or search: no state depends on them.
- OperServ, Global, OperBot, WatchServ and ALIS: they pass lines on, answer queries or
  keep a flag for each channel or operator.
- The MySQL and PostgreSQL drivers, but for how they give ids. Where the SQLite driver ends the
  process on any error, they reconnect outside a transaction and execute the statement again.
- Vendored libraries (sqlite3, pcre).
- Topics, keys, limits, +I masks and the packing of modes in lines; they travel with
  what is modelled.
- Times as numbers, except in `Uplink`, `RateLimits`, `OperBans`, `ChanFix` and `ChanScores`:
  elsewhere something may or may not be old enough whenever the code looks, which
  allows more than the program does. `last_time` and its saving go with them.
- What is read from freed memory, beyond that it is read (`misused`, clients of a freed
  account, events of a freed connection).
- Introducing and merging services, and the order in which a subtree of servers is
  taken apart in `exit_server()`.
- The parsing of text into addresses, and `irccmp()`.
