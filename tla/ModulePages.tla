----------------------------- MODULE ModulePages -----------------------------
(***************************************************************************)
(* The module pages of the options flow (WagoOptionsFlow, config_flow.py): *)
(* a page reads the 879-9000 when it opens, what it saves is written to    *)
(* the module, and the entry follows the module or is reloaded in place.   *)
(* Meanwhile other pages, WAGO's own tool, the search and the user change  *)
(* the module and the entry.                                               *)
(*                                                                         *)
(* A write is one step with the requests that reached the module as its    *)
(* outcome: that whole blocks written under the lock come to this is what  *)
(* WagoModule and FieldWrites show.                                        *)
(***************************************************************************)
EXTENDS Naturals

CONSTANTS
  Pages,       \* the module pages that may be open at the same time
  Addresses,   \* fixed addresses and leases of the module
  Names,       \* host names that resolve to wherever the module is
  Timeouts,    \* values of a setting that does not concern the address
  MaxEvents    \* bound: pages opened, faults, and changes by others

ASSUME ModulePagesAssumption ==
  /\ Addresses \cap Names = {}
  /\ MaxEvents \in Nat

Settings == [timeout : Timeouts, dhcp : BOOLEAN, ip_address : Addresses]
Keys == {"timeout", "dhcp", "ip_address"}

VARIABLES
  blocks,   \* what the module's registers show
  stored,   \* what its flash holds
  inUse,    \* what it works with
  lease,    \* the address DHCP gives it
  host,     \* entry.data["host"]
  entry,    \* "loaded", "reloading" until a setup succeeds, or "removed"
  page,     \* the open pages
  events

module == <<blocks, stored, inUse>>
vars == <<module, lease, host, entry, page, events>>

Closed == [step |-> "closed"]
\* A page that has read the block of the settings and waits for the network's.
Opening ==
  [step : {"opening"}, timeout : Timeouts, opened : Addresses \cup Names, alive : BOOLEAN]
Open ==
  [step : {"shown", "writing", "written"},
   current : Settings,                       \* what the page read
   settings : Settings,                      \* what it submitted, if it does
   touched : SUBSET Keys,                    \* what any submission changed
   failed : BOOLEAN,                         \* _write_failed
   opened : Addresses \cup Names,            \* the entry's host when it read,
   applied : BOOLEAN,                        \* and whether the address read is in use
   seen : Addresses \cup Names,              \* the entry's host when it submitted
   alive : BOOLEAN]                          \* its API object is the entry's

TypeOK ==
  /\ blocks \in Settings /\ stored \in Settings /\ inUse \in Settings
  /\ lease \in Addresses
  /\ host \in Addresses \cup Names
  /\ entry \in {"loaded", "reloading", "removed"}
  /\ page \in [Pages -> Opening \cup Open \cup {Closed}]
  /\ events \in Nat

ModuleAt == IF inUse.dhcp THEN lease ELSE inUse.ip_address
Reaches(h) == h \in Names \/ h = ModuleAt

Init ==
  /\ blocks \in Settings /\ stored = blocks /\ inUse = blocks
  /\ lease \in Addresses
  /\ host \in Addresses \cup Names /\ Reaches(host)
  /\ entry = "loaded"
  /\ page = [p \in Pages |-> Closed]
  /\ events = MaxEvents

Spend == events > 0 /\ events' = events - 1

\* What a plausible mistake would make of the definitions below it.
ChangedOnly(p, s) == {k \in Keys : page[p].current[k] # s[k]}
AlwaysAll(p, s) == Keys
ReachedByAddressOnly(p) == page[p].seen = page[p].current.ip_address
WrittenOnly(p) == [k \in page[p].touched |-> page[p].settings[k]]

-----------------------------------------------------------------------------
(* Opening, submitting and leaving a page.                                 *)

\* async_step_module without input: the loaded entry's API object reads the module,
\* one block after the other.
OpenPage(p) ==
  /\ Spend
  /\ page[p] = Closed /\ entry = "loaded" /\ Reaches(host)
  /\ page' = [page EXCEPT ![p] = [step |-> "opening", timeout |-> blocks.timeout,
                                 opened |-> host, alive |-> TRUE]]
  /\ UNCHANGED <<module, lease, host, entry>>

IsOpening(p) == page[p] # Closed /\ page[p].step = "opening"
CanRead(p) == page[p].alive /\ Reaches(page[p].opened)
NetworkInUse == blocks.dhcp = inUse.dhcp /\ blocks.ip_address = inUse.ip_address

ShowPage(p) ==
  /\ IsOpening(p) /\ CanRead(p)
  /\ LET read == [blocks EXCEPT !.timeout = page[p].timeout] IN
       page' = [page EXCEPT ![p] =
         [step |-> "shown", current |-> read, settings |-> read, touched |-> {},
          failed |-> FALSE, opened |-> page[p].opened, applied |-> NetworkInUse,
          seen |-> page[p].opened, alive |-> TRUE]]
  /\ UNCHANGED <<module, lease, host, entry, events>>

\* "module_not_answering".
OpenFails(p) ==
  /\ IsOpening(p) /\ (IF CanRead(p) THEN Spend ELSE UNCHANGED events)
  /\ page' = [page EXCEPT ![p] = Closed]
  /\ UNCHANGED <<module, lease, host, entry>>

\* _async_write: what the user changed; after a failed write every field.
WrittenKeys(p, s) ==
  IF page[p].failed THEN Keys ELSE {k \in Keys : page[p].current[k] # s[k]}

\* Nothing to write ends the page; a page of an entry that is not loaded is
\* aborted.
Submit(p, s) ==
  /\ page[p] # Closed /\ page[p].step = "shown"
  /\ page' = [page EXCEPT ![p] =
       IF entry # "loaded" \/ WrittenKeys(p, s) = {} THEN Closed
       ELSE [page[p] EXCEPT !.step = "writing", !.settings = s,
         !.touched = @ \cup {k \in Keys : page[p].current[k] # s[k]},
         !.seen = host, !.alive = TRUE]]
  /\ UNCHANGED <<module, lease, host, entry, events>>

\* The user closes the dialog.
Leave(p) ==
  /\ page[p] # Closed /\ page[p].step = "shown"
  /\ page' = [page EXCEPT ![p] = Closed]
  /\ UNCHANGED <<module, lease, host, entry, events>>

-----------------------------------------------------------------------------
(* The write, and what the page makes of how it ended.                     *)

\* The registers after the write of page p.
Result(p) ==
  [k \in Keys |->
    IF k \in WrittenKeys(p, page[p].settings) THEN page[p].settings[k] ELSE blocks[k]]

CanReach(p) == page[p].alive /\ Reaches(page[p].seen)

Writing(p) == page[p] # Closed /\ page[p].step = "writing"

\* All four steps went through, or all but the answer to "apply".
WriteStored(p) ==
  /\ Writing(p) /\ CanReach(p)
  /\ blocks' = Result(p) /\ stored' = Result(p)
  /\ \/ inUse' = Result(p) /\ UNCHANGED events
     \/ UNCHANGED inUse /\ Spend
  /\ page' = [page EXCEPT ![p].step = "written"]
  /\ UNCHANGED <<lease, host, entry>>

\* ModbusError: none of the requests landed, or the first block, or both, or the
\* store command as well, unanswered; the page is shown again.
WriteFails(p) ==
  /\ Writing(p)
  /\ IF CanReach(p) THEN Spend ELSE UNCHANGED events
  /\ \/ UNCHANGED <<blocks, stored>>
     \/ /\ Reaches(page[p].seen)
        /\ \/ blocks' = [blocks EXCEPT !.timeout = Result(p).timeout] /\ UNCHANGED stored
           \/ blocks' = Result(p) /\ stored' \in {stored, Result(p)}
  /\ page' = [page EXCEPT ![p] =
       [@ EXCEPT !.step = "shown", !.failed = TRUE, !.alive = TRUE,
                 !.settings = page[p].current, !.seen = page[p].opened]]
  /\ UNCHANGED <<inUse, lease, host, entry>>

\* Every reload gives the entry a new API object.
Reloading(pages) ==
  [p \in Pages |->
    IF pages[p] # Closed /\ pages[p].step \in {"opening", "writing"}
      THEN [pages[p] EXCEPT !.alive = FALSE] ELSE pages[p]]

ReachedTheModule(p) ==
  page[p].seen = page[p].current.ip_address \/ page[p].current.dhcp

\* _follow_module.
Follows(p) ==
  /\ ~page[p].settings.dhcp
  /\ page[p].seen \in Addresses /\ page[p].seen # page[p].settings.ip_address
  /\ ReachedTheModule(p)

\* The entry moves with the module unless it was changed meanwhile; if it does
\* not move it is reloaded where it is; a deleted entry is left alone.
PageDone(p) ==
  /\ page[p] # Closed /\ page[p].step = "written"
  /\ host' = IF entry # "removed" /\ Follows(p) /\ host = page[p].seen
               THEN page[p].settings.ip_address ELSE host
  /\ entry' = IF entry = "removed" THEN entry ELSE "reloading"
  /\ page' = Reloading([page EXCEPT ![p] = Closed])
  /\ UNCHANGED <<module, lease, events>>

-----------------------------------------------------------------------------
(* The entry and the world around it.                                      *)

ReloadDone ==
  /\ entry = "reloading" /\ Reaches(host)
  /\ entry' = "loaded"
  /\ UNCHANGED <<module, lease, host, page, events>>

\* The entry is given another host by the user, or by the search the address
\* its module answers at.
HostChanged ==
  /\ entry # "removed"
  /\ \/ host' \in Names \ {host} /\ Spend
     \/ host \in Addresses /\ host # ModuleAt /\ host' = ModuleAt /\ UNCHANGED events
  /\ entry' = "reloading" /\ page' = Reloading(page)
  /\ UNCHANGED <<module, lease>>

RemoveEntry ==
  /\ entry # "removed" /\ Spend
  /\ entry' = "removed" /\ page' = Reloading(page)
  /\ UNCHANGED <<module, lease, host>>

\* WAGO's configuration tool writes, stores and applies.
ToolWrites ==
  /\ Spend
  /\ \E s \in Settings : blocks' = s /\ stored' = s /\ inUse' = s
  /\ UNCHANGED <<lease, host, entry, page>>

ModuleRestarts ==
  /\ Spend
  /\ blocks' = stored /\ inUse' = stored /\ UNCHANGED stored
  /\ UNCHANGED <<lease, host, entry, page>>

Next ==
  \/ \E p \in Pages :
       \/ OpenPage(p) \/ ShowPage(p) \/ OpenFails(p)
       \/ Leave(p) \/ \E s \in Settings : Submit(p, s)
       \/ WriteStored(p) \/ WriteFails(p) \/ PageDone(p)
  \/ ReloadDone \/ HostChanged \/ RemoveEntry \/ ToolWrites \/ ModuleRestarts

Spec == Init /\ [][Next]_vars

-----------------------------------------------------------------------------
(* What the pages promise.                                                 *)

Through(p) == Writing(p) /\ page'[p] # Closed /\ page'[p].step = "written"
Done(p) == page[p] # Closed /\ page[p].step = "written" /\ page'[p] = Closed

\* The entry the page opened on is the one it leaves, and it has an address.
SameEntry(p) ==
  entry # "removed" /\ host \in Addresses /\ {page[p].opened, page[p].seen} = {host}

\* Once a page is done, an entry that reached its module by an address points
\* where the module goes with what it stored; with DHCP on that is left to the
\* search.  (The page had read an address that was in use, and what the module
\* stored is what the page shows.)
EntryFollowsModule ==
  [][\A p \in Pages :
       Done(p) /\ SameEntry(p) /\ page[p].applied /\ stored = page[p].settings =>
         stored.dhcp \/ host' = stored.ip_address]_vars

\* README.md says "A new fixed address, or switching DHCP off, takes the entry
\* along": whatever the page had read.
NewAddressTakesEntryAlong ==
  [][\A p \in Pages :
       Done(p) /\ SameEntry(p) /\ stored = page[p].settings =>
         stored.dhcp \/ host' = stored.ip_address]_vars

\* A page whose write failed leaves the module, once it is through, with exactly
\* what the page shows: a field set back to what the page had read as well, and
\* whatever part of the failed write the module kept.
RetryHeals ==
  [][\A p \in Pages :
       Through(p) /\ page[p].failed =>
         blocks' = page[p].settings /\ stored' = page[p].settings]_vars

\* The settings that page p has never shown other than it read them.
Untouched(p) == Keys \ page[p].touched

\* The first write of a page takes back no change that the module got, from
\* another page or tool, since the page was read.
FirstWriteKeepsOthers ==
  [][\A p \in Pages :
       Through(p) /\ ~page[p].failed =>
         \A k \in Untouched(p) : stored'[k] = blocks[k]]_vars

\* The comment that makes a page read when it opens says "another tool may have
\* changed the module since, and the page must not write that back": no write of
\* a page takes such a change back.
WritesKeepOthers ==
  [][\A p \in Pages :
       Through(p) => \A k \in Untouched(p) : stored'[k] = blocks[k]]_vars
=============================================================================
