---------------------------- MODULE ProfileIntake ----------------------------
(***************************************************************************)
(* From the profiles of a provider to the tasks of a batch: syncing the    *)
(* list of profiles page by page (providers/*, ProviderService), the       *)
(* managed scope and the profile policy, mapping the rows of a file to     *)
(* profiles when a batch starts, and the tasks its run creates             *)
(* (services/batch_service).                                               *)
(*                                                                         *)
(* Reading the cache, reading the scope and writing are separate steps     *)
(* with an await between them: a sync, a change of the scope and a change  *)
(* at the provider fall anywhere.  A start or a run that fails midway      *)
(* commits nothing.                                                        *)
(***************************************************************************)
EXTENDS Integers, FiniteSets, SequencesExt

CONSTANTS
  Profiles,     \* ids of profiles
  NoProfile,    \* a row, at the provider or in a file, without an id
  GroupOf, TagsOf,  \* the group and the tags of a profile
  Listings,     \* how a provider may list: [by, total, cap]
  RemoteLists,  \* lists of profiles a provider may have at first
  PageSize, PageLimit,  \* rows asked for per request; requests per sync
  Syncs,        \* requests to sync
  Files,        \* inputs of a batch: sequences of ids
  Managed,      \* scopes a user may save
  OwnPolicy, Policies,  \* the workflow's policy; those a start may bring
  MaxEdits      \* bound on changes at the provider and of the scope

ASSUME IntakeAssumption ==
  /\ NoProfile \notin Profiles
  /\ PageSize \in Nat \ {0} /\ PageLimit \in Nat \ {0} /\ MaxEdits \in Nat
  /\ OwnPolicy \in Policies
  /\ Listings \subseteq [by : {"bitbrowser", "nstbrowser", "ixbrowser"},
                          total : {"stated", "absent", "bare"}, cap : 1..PageSize]
  /\ \A r \in RemoteLists \cup Files : r \in Seq(Profiles \cup {NoProfile})

VARIABLES
  listing,  \* how the provider lists its profiles
  remote,   \* its list
  sync,     \* sync[s]: [at, page, rows], where a sync is and what it has read
  steady,   \* syncs during whose reads the provider's list has not changed
  cache,    \* ids of the profiles stored
  managed,  \* provider_scopes: [set, groups, include, exclude]
  batch,    \* the batch: [status, source, policy]
  mapped,   \* per row [id, to]: its id and the profile mapped to it
  intakePc, \* where the start or the run of the batch is
  cached,     \* the stored profiles it has read
  usable,   \* those of them that scope and policy let through
  taskOf,   \* rows with a task, and its profile
  missing,  \* while the batch runs, profiles that were not stored ever since it was READY
  barred,   \* and those that were not managed ever since
  edits     \* changes so far

intakeVars == <<listing, remote, sync, steady, cache, managed, batch, mapped, intakePc,
                cached, usable, taskOf, missing, barred, edits>>
listVars == <<listing, remote, sync, steady, cache>>
batchVars == <<batch, mapped, intakePc, cached, usable, taskOf>>

Unmanaged == [set |-> FALSE, groups |-> {}, include |-> {}, exclude |-> {}]

IntakeInit ==
  /\ listing = [by |-> "none", total |-> "none", cap |-> 1]
  /\ remote = <<>>
  /\ sync = [s \in Syncs |-> [at |-> "idle", page |-> 0, rows |-> <<>>]]
  /\ steady = {} /\ cache = <<>>
  /\ managed = Unmanaged
  /\ batch = [status |-> "none", source |-> "none", policy |-> OwnPolicy]
  /\ mapped = <<>> /\ intakePc = "idle" /\ cached = {} /\ usable = {} /\ taskOf = <<>>
  /\ missing = {} /\ barred = {} /\ edits = 0
----------------------------------------------------------------------------
(* Scope and policy *)

Manages(m, p) ==
  /\ p \notin m.exclude
  /\ \/ ~m.set
     \/ p \in m.include
     \/ GroupOf[p] \in m.groups

Selects(policy, p) ==
  \/ policy.mode = "all_profiles"
  \/ policy.mode = "explicit_profiles" /\ p \in policy.ids
  \/ policy.mode = "by_group" /\ GroupOf[p] \in policy.ids
  \/ policy.mode = "by_tag" /\ TagsOf[p] \cap policy.ids # {}

Resolved(policy) == {p \in cached : Manages(managed, p) /\ Selects(policy, p)}

Stored == ToSet(cache)

SaveScope(m) ==
  /\ edits < MaxEdits /\ edits' = edits + 1
  /\ managed' = m
  /\ barred' = {p \in barred : ~Manages(m, p)}
  /\ UNCHANGED <<listVars, batchVars, missing>>
----------------------------------------------------------------------------
(* The provider and the syncs *)

MeetProvider(l, r) ==
  /\ listing.by = "none"
  /\ listing' = l /\ remote' = r
  /\ UNCHANGED <<sync, steady, cache, managed, batchVars, missing, barred, edits>>

\* Profiles are created, the newest listed first, and deleted while syncs read.
ChangeRemote ==
  /\ listing.by # "none" /\ edits < MaxEdits /\ edits' = edits + 1
  /\ \/ \E p \in Profiles \ ToSet(remote) : remote' = <<p>> \o remote
     \/ \E i \in DOMAIN remote : remote' = RemoveAt(remote, i)
  /\ steady' = {}
  /\ UNCHANGED <<listing, sync, cache, managed, batchVars, missing, barred>>

BeginSync(s) ==
  /\ listing.by # "none" /\ sync[s].at = "idle"
  /\ sync' = [sync EXCEPT ![s].at = "paging"]
  /\ steady' = steady \cup {s}
  /\ UNCHANGED <<listing, remote, cache, managed, batchVars, missing, barred, edits>>

SyncOver == [at |-> "over", page |-> 0, rows |-> <<>>]

PageAt(n) ==
  SubSeq(remote, n * listing.cap + 1, Min({(n + 1) * listing.cap, Len(remote)}))

\* The total a page states: ixBrowser's default is the number of rows on the page, as is
\* that of a page that is a bare list; -1 when nothing is known.
TotalOf(page) ==
  IF listing.total = "stated" THEN Len(remote)
  ELSE IF listing.total = "bare" \/ listing.by = "ixbrowser" THEN Len(page)
  ELSE -1

\* Mutant of LastPage: a full page is taken for a short one.
StopsOnFullPage(page, rows) ==
  \/ page = <<>>
  \/ listing.by # "ixbrowser" /\ Len(page) <= PageSize
  \/ TotalOf(page) # -1 /\ Len(rows) >= TotalOf(page)

LastPage(page, rows) ==
  \/ page = <<>>
  \/ listing.by # "ixbrowser" /\ Len(page) < PageSize
  \/ TotalOf(page) # -1 /\ Len(rows) >= TotalOf(page)

\* A row without an id: a KeyError of the ixBrowser client.
Rejects(rows) == listing.by = "ixbrowser" /\ NoProfile \in ToSet(rows)

ReadPage(s) ==
  LET page == PageAt(sync[s].page)
      rows == sync[s].rows \o page
      more == ~LastPage(page, rows) /\ sync[s].page + 1 < PageLimit
  IN /\ sync[s].at = "paging"
     /\ sync' = [sync EXCEPT ![s] =
          IF more THEN [at |-> "paging", page |-> @.page + 1, rows |-> rows]
          ELSE IF Rejects(rows) THEN SyncOver
          ELSE [at |-> "read", page |-> 0, rows |-> rows]]
     /\ UNCHANGED <<listing, remote, steady, cache, managed, batchVars, missing, barred, edits>>

PageFails(s) ==
  /\ sync[s].at = "paging"
  /\ sync' = [sync EXCEPT ![s] = SyncOver]
  /\ steady' = steady \ {s}
  /\ UNCHANGED <<listing, remote, cache, managed, batchVars, missing, barred, edits>>

\* Mutant of WithId: rows without an id are stored like the others.
EveryRow(rows) == rows
\* BitBrowser and NSTBrowser leave out rows without an id.
WithId(rows) ==
  LET upTo[n \in 0..Len(rows)] ==
        IF n = 0 THEN <<>>
        ELSE IF rows[n] = NoProfile THEN upTo[n - 1]
        ELSE Append(upTo[n - 1], rows[n])
  IN upTo[Len(rows)]

\* delete and inserts, in one transaction
StoreSync(s) ==
  /\ sync[s].at = "read"
  /\ cache' = WithId(sync[s].rows)
  /\ sync' = [sync EXCEPT ![s] = SyncOver]
  /\ missing' = missing \ {cache'[i] : i \in DOMAIN cache'}
  /\ steady' = steady \ {s}
  /\ UNCHANGED <<listing, remote, managed, batchVars, barred, edits>>
----------------------------------------------------------------------------
(* The batch *)

Ids(rows) == {rows[i].id : i \in DOMAIN rows} \ {NoProfile}

\* What validate_profile_mapping asks of rows in strict mode.
Valid(rows, profiles) ==
  /\ rows # <<>> /\ profiles # {}
  /\ \A i \in DOMAIN rows : rows[i].id \in profiles
  /\ \A i, k \in DOMAIN rows : rows[i].id = rows[k].id => i = k

Unchecked(file) == [i \in DOMAIN file |-> [id |-> file[i], to |-> file[i]]]

\* import_batch and the draft of a schedule's firing; a named workflow validates the file.
ImportBatch(file, source, checked) ==
  /\ batch.status = "none"
  /\ checked => source = "file" /\ Valid(Unchecked(file),
       {p \in Stored : Manages(managed, p) /\ Selects(OwnPolicy, p)})
  /\ batch' = [batch EXCEPT !.status = "DRAFT", !.source = source]
  /\ mapped' = Unchecked(file)
  /\ UNCHANGED <<listVars, managed, intakePc, cached, usable, taskOf, missing, barred, edits>>

BeginStart(policy) ==
  /\ batch.status \in {"DRAFT", "FAILED"} /\ intakePc = "idle"
  /\ intakePc' = "map"
  /\ batch' = [batch EXCEPT !.policy = policy]
  /\ cached' = Stored
  /\ UNCHANGED <<listVars, managed, mapped, usable, taskOf, missing, barred, edits>>

ResolveForMap ==
  /\ intakePc = "map"
  /\ usable' = Resolved(batch.policy)
  /\ intakePc' = "validate"
  /\ UNCHANGED <<listVars, managed, batch, mapped, cached, taskOf, missing, barred, edits>>

\* validate_profile_mapping resolves again, with the workflow's own policy.
ReadForValidation ==
  /\ intakePc = "validate"
  /\ cached' = Stored
  /\ intakePc' = "commit"
  /\ UNCHANGED <<listVars, managed, batch, mapped, usable, taskOf, missing, barred, edits>>

\* Mutant of Mapping: a second row with the same id is mapped as well.
MapsEveryRow(rows) ==
  [i \in DOMAIN rows |->
     [rows[i] EXCEPT !.to = IF rows[i].id \in usable THEN rows[i].id ELSE NoProfile]]

\* Every mapping is made anew; of rows with the same id only the first can be mapped.
Mapping(rows) ==
  [i \in DOMAIN rows |->
     [rows[i] EXCEPT !.to =
        IF rows[i].id \in usable /\ \A k \in 1..(i - 1) : rows[k].id # rows[i].id
          THEN rows[i].id ELSE NoProfile]]

Strict == batch.source # "schedule"

CommitStart ==
  /\ intakePc = "commit"
  /\ Strict => usable # {} /\ Valid(mapped, Resolved(OwnPolicy))
  /\ mapped' = Mapping(mapped)
  /\ taskOf' = <<>>
  /\ batch' = [batch EXCEPT !.status = "READY"]
  /\ intakePc' = "run"
  /\ missing' = Profiles \ Stored /\ barred' = {p \in Profiles : ~Manages(managed, p)}
  /\ cached' = {} /\ usable' = {}
  /\ UNCHANGED <<listVars, managed, edits>>

RefuseStart ==
  /\ intakePc = "commit"
  /\ Strict /\ (usable = {} \/ ~Valid(mapped, Resolved(OwnPolicy)))
  /\ intakePc' = "idle" /\ cached' = {} /\ usable' = {}
  /\ UNCHANGED <<listVars, managed, batch, mapped, taskOf, missing, barred, edits>>

BeginRun ==
  /\ intakePc = "run"
  /\ cached' = Stored
  /\ intakePc' = "resolve"
  /\ UNCHANGED <<listVars, managed, batch, mapped, usable, taskOf, missing, barred, edits>>

ResolveForRun ==
  /\ intakePc = "resolve"
  /\ usable' = Resolved(batch.policy)
  /\ intakePc' = "create"
  /\ UNCHANGED <<listVars, managed, batch, mapped, cached, taskOf, missing, barred, edits>>

Executable == {i \in DOMAIN mapped : mapped[i].to \in usable}

EndWith(status) ==
  /\ batch' = [batch EXCEPT !.status = status]
  /\ intakePc' = "idle" /\ cached' = {} /\ usable' = {} /\ missing' = {} /\ barred' = {}

\* No rows: COMPLETED.  No profiles, or no row with one of them: FAILED.
NothingToRun ==
  /\ intakePc = "create"
  /\ \/ mapped = <<>> /\ EndWith("COMPLETED")
     \/ mapped # <<>> /\ Executable = {} /\ EndWith("FAILED")
  /\ UNCHANGED <<listVars, managed, mapped, taskOf, edits>>

CreateTasks ==
  /\ intakePc = "create" /\ Executable # {}
  /\ taskOf' = [i \in Executable |-> mapped[i].to]
  /\ batch' = [batch EXCEPT !.status = "RUNNING"]
  /\ intakePc' = "work" /\ cached' = {} /\ usable' = {}
  /\ UNCHANGED <<listVars, managed, mapped, missing, barred, edits>>

\* The workers, the control plane and _finalize_batch: see BatchLifecycle.  A cancelled
\* batch can be started again as a failed one can.
RunEndsWith(status) ==
  /\ intakePc = "work"
  /\ EndWith(status)
  /\ UNCHANGED <<listVars, managed, mapped, taskOf, edits>>
----------------------------------------------------------------------------
SyncNext(s) == BeginSync(s) \/ ReadPage(s) \/ PageFails(s) \/ StoreSync(s)

IntakeNext ==
  \/ \E l \in Listings, r \in RemoteLists : MeetProvider(l, r)
  \/ ChangeRemote
  \/ \E m \in Managed : SaveScope(m)
  \/ \E s \in Syncs : SyncNext(s)
  \/ \E file \in Files, source \in {"file", "schedule"}, checked \in BOOLEAN :
        ImportBatch(file, source, checked)
  \/ \E policy \in Policies : BeginStart(policy)
  \/ ResolveForMap \/ ReadForValidation \/ CommitStart \/ RefuseStart
  \/ BeginRun \/ ResolveForRun \/ NothingToRun \/ CreateTasks
  \/ \E status \in {"COMPLETED", "FAILED"} : RunEndsWith(status)

IntakeSpec == IntakeInit /\ [][IntakeNext]_intakeVars
----------------------------------------------------------------------------
IntakeTypeOK ==
  /\ remote \in Seq(Profiles \cup {NoProfile})
  /\ sync \in [Syncs -> [at : {"idle", "paging", "read", "over"}, page : 0..(PageLimit - 1),
                          rows : Seq(Profiles \cup {NoProfile})]]
  /\ steady \subseteq Syncs /\ cache \in Seq(Profiles)
  /\ batch \in [status : {"none", "DRAFT", "READY", "RUNNING", "COMPLETED", "FAILED"},
                  source : {"none", "file", "schedule"}, policy : Policies]
  /\ mapped \in Seq([id : Profiles \cup {NoProfile}, to : Profiles \cup {NoProfile}])
  /\ intakePc \in {"idle", "map", "validate", "commit", "run", "resolve", "create", "work"}
  /\ cached \subseteq Profiles /\ usable \subseteq Profiles
  /\ DOMAIN taskOf \subseteq DOMAIN mapped /\ \A i \in DOMAIN taskOf : taskOf[i] \in Profiles
  /\ missing \subseteq Profiles /\ barred \subseteq Profiles /\ edits \in 0..MaxEdits

\* The tasks of a batch drive the window named in their own row, no two of them the same
\* window, and none a window that was not stored at any time since the batch was made
\* READY, or not managed at any time since (import_batch, _validate_and_map_batch_rows,
\* _run_batch).
MappingSound ==
  /\ \A i \in DOMAIN taskOf : taskOf[i] = mapped[i].id
  /\ \A i, k \in DOMAIN taskOf : taskOf[i] = taskOf[k] => i = k
  /\ intakePc = "work" => \A i \in DOMAIN taskOf : taskOf[i] \notin missing \cup barred

\* Providers whose lists the paging of the clients can follow to the end.
Followed ==
  /\ listing.by = "ixbrowser" => listing.total = "stated"
  /\ listing.by # "ixbrowser" => listing.total # "bare" /\ listing.cap = PageSize
  /\ Len(remote) <= PageLimit * listing.cap

\* stored is what list says, one entry for each row that has an id, and in its order.
ListsAll(stored, list) ==
  \E at \in [DOMAIN stored -> DOMAIN list] :
    /\ {at[k] : k \in DOMAIN stored} = {i \in DOMAIN list : list[i] # NoProfile}
    /\ \A k \in DOMAIN stored : stored[k] = list[at[k]]
    /\ \A k, m \in DOMAIN stored : k < m => at[k] < at[m]

\* A sync during which the provider's list did not change stores each profile of the
\* list, once and in its order (_post_all_rows, _get_all_profiles, sync_profiles).
WholeListSynced ==
  [][\A s \in Syncs :
       sync[s].at = "read" /\ sync'[s].at = "over" /\ s \in steady /\ Followed
         => ListsAll(cache', remote)]_intakeVars
=============================================================================
