# A TLA+ model of libvirt-cim

libvirt-cim is a set of CMPI providers: shared objects that a CIM object
manager (CIMOM) loads and calls, on any of its threads, to answer questions
about virtual machines and to change them through libvirt.  This project models
the providers that start threads, keep state between calls, keep files, or change
several things of which each may fail; and the translation of a guest's XML into
CIM settings and back, through which every change of a guest goes.

Contents: 1 inventory, 2 modules, 3 runs and bounds, 4 fairness, 5 proofs,
6 what is only model-checked, 7 findings, 8 what is not modelled, 9 plan.

## 1. Inventory

| Component | State | Operations | What is hard |
|---|---|---|---|
| Lifecycle indications, polling build (`src/Virt_ComputerSystemIndication.c`, `libxkutil/cs_util_instance.c`) | `lifecycle_enabled`; per platform `csi_thread_data` (thread id, count of active filters, arguments); one mutex and one condition variable for all platforms; in each poller two snapshots of the domains | EnableIndications, DisableIndications, ActivateFilter, DeActivateFilter; the poller thread | CIMOM threads against pollers; a hypervisor that changes between any two calls; failing threads, connections, listings |
| Lifecycle indications, build with libvirt's events (the same file from line 1007) | the same slots, each with a list of the known guests; a callback and a queue of events in libvirt | the same four calls; the thread with its event loop; the callback | a callback that gives the mutex up between two looks at a guest; events dropped while nobody listens; a thread that leaves before its loop |
| Information store (`libxkutil/infostore.c`) | one XML file per guest name: uuid, requested state, scheduling parameters, migrating flag | open, get, set, close, delete | read-modify-write of a file under flock, unlinking a file others wait for, a guest redefined under its name, crashes |
| Migration service (`src/Virt_VSMigrationService.c`) | a CIM job instance in the CIMOM; a thread per job; the migrating flag; guests on two hosts | MigrateVirtualSystemTo{Host,System}, CheckVirtualSystemIsMigratableTo{Host,System} | two hosts without a transaction, shutdown with a timeout, overlapping jobs, every call may fail |
| Snapshot service (`src/Virt_VirtualSystemSnapshotService.c`) | a job and a thread per request; one save image per guest | CreateSnapshot, DestroySnapshot, ApplySnapshot | jobs of one guest share one path and exclude each other nowhere; a restore that fails after the save has switched the guest off |
| Computer system (`src/Virt_ComputerSystem.c`) | none of its own; reads guests, records, images | RequestStateChange, queries | decides on a state and an image looked at before; a reset takes a guest down and must bring it back |
| System management (`src/Virt_VirtualSystemManagementService.c`) | none of its own; guests' definitions in libvirt | DefineSystem, DestroySystem, ModifySystemSettings, Add/Modify/RemoveResourceSettings | unlocked read-modify-write of a definition, live change before stored change, batches |
| Pools (`src/Virt_ResourcePoolConfigurationService.c`, `src/Virt_DevicePool.c`, `libxkutil/pool_parsing.c`) | none of their own; networks, storage pools, volumes in libvirt | CreateChildResourcePool, DeleteResourcePool, Create/DeleteResourceInPool, RefreshResourcesInPool, GetInstance, EnumInstances | creation and deletion in two calls and more; counting before listing; a lookup that fails counts as a free name |
| Network filters (`src/Virt_Filter*.c`, `src/Virt_*FilterList.c`, `libxkutil/acl_parsing.c`) | none of their own; filters in libvirt | create and delete filters, references and uses; lists | read-modify-write of XML; lists looked up one by one |
| Settings of guests and resources (`src/Virt_RASD.c`, `src/Virt_VSSD.c`, and the conversions of `src/Virt_VirtualSystemManagementService.c`) | none | structure to CIM instance and back | completing what is asked with what is shown; unions that are overwritten in part |
| Parsing and generation (`libxkutil/device_parsing.c`, `xmlgen.c`, `capability_parsing.c`) | none | XML to structure and back | everything the structure has no place for is lost at the next change of anything |
| Device instances, associations, profiles, capabilities, redirection, switch | none | queries | nothing that changes |

How they interact.  The CIMOM calls every provider on threads of its own and
may call several at once.  Providers call libvirt, which serialises single calls
only, and reach one another through functions (`get_domain_by_name`,
`vsss_has_save_image`), through the CIMOM (job instances, indications) and
through the information store, which the computer system, the system management
and the migration service all read and write.

What makes each of them correct:

- *lifecycle indications*: one poller per platform, alive while a filter is
  active; no poller delivers while indications are disabled; no failing or short
  listing makes a guest that was reported forgotten: its Deleted indication is
  tried first (and is lost for good when it is skipped, not built or not delivered,
  section 7);
- *information store*: a caller changes the record as it then is, one key at a
  time; a record is lost only in the ways that are named: a deletion, a caller that
  met the record of another guest, a failing save, a crash; a guest never reads the
  record of another guest;
- *migration*: the guest runs once, its definition is never lost, a job that
  reports success has moved it, a job is seen to advance and to end;
- *snapshots, state changes*: the memory of a guest saved and switched off stays
  until it is restored or given up;
- *system management, pools, filters*: a change that is reported is there, but for
  what failed in a call whose result nobody looks at, and one that failed has left
  nothing half done; a list misses nothing that was there all along and could be
  looked up;
- *settings and XML*: a request changes what it asks for and nothing else, and
  what it asked for is what is shown afterwards.

## 2. Modules

| Module | Models | State and actions |
|---|---|---|
| `Lifecycle` | the polling build of the indication provider | `id`, `active`, `args` are the fields of `csi_thread_data`; `mutex` is `lifecycle_mutex`; `pc`, `plat`, `view` are a poller's position and locals (`prev`, `cur` its two snapshots, `todo` the rest of the batch, `ind` the indication being built); `raising` is a `raise_indication` between its look at the flag and its delivery; `hist` is history: the guests a poller's subscriber was told of, and those whose Deleted indication was given up.  One action per handler and per stretch of the poller between two libvirt calls or lock operations |
| `Lifecycle_proofs` | theorems about it | |
| `AtomicStore` | abstract: the record of a name, which each caller opens, changes in one step and leaves | `content` is the record, `user` what each caller has to do with it.  `Begin`, `Open`, `Set`, `Commit`, `Leave` of a caller; what loses a record: `Destroy`, `Condemn` and then `Remove` (once in a call, by a caller that met another guest's uuid), `Spoil` (a failing save), `Crash` |
| `InfoStore` | `infostore.c` over a file system with inodes and flock | `path`, `file`, `lock` are the file system's; `client` is the `infostore_ctx` of each caller.  One action per system call |
| `InfoStore_proofs` | theorems about it | |
| `CimJob` | abstract: what a client sees of a job | `Create`, `Advance` |
| `Migration` | the migration service, hosts and operators | `job` is `struct migration_job` and its thread's position; `inst`, `told` are the job instance and its last indication; `record` is the infostore record with its owner and the flag; `guest`, `other` are libvirt's view of each host.  One action per libvirt call or CIMOM call, with its failure beside it |
| `Migration_proofs` | theorems about it | |
| `Snapshot` | the snapshot service and RequestStateChange, over one guest | `guest` (running, defined, which memory), `lives` (its starts) are libvirt's; `image` is the file at the path of its name; `job` is `struct snap_context` and its thread's position; `inst` is the job instance; `call` is the locals of each RequestStateChange; `owed` is history: the memory a client may count on.  One action per libvirt call or unlink, with its failure beside it |
| `Snapshot_proofs` | theorems about it | |
| `LifecycleEvent`, `MCLifecycleEvent` | the build with libvirt's events | `slot` is `csi_thread_data` with its list; `pc`, `plat` are a thread's position and slot; `room` is the places a listing has counted; `cb` is the locals of `csi_domain_event_cb`; `queue` is libvirt's; `missed`, `told` are history: the guests the callback could not follow or the listing overlooked, the last indication of each.  One action per handler and per stretch between two libvirt calls or lock operations |
| `LifecycleEvent_proofs` | theorems about it | |
| `Pools` | pools and volumes, over a few names of each type | `pool`, `files`, `seen` are libvirt's; `call` is the locals and the position of each request; `steady`, `alone` are history: what ran since the count, whether somebody else changed the pool.  One action per libvirt call or decision |
| `Pools_proofs` | theorems about it | |
| `FilterRules` | pure: what is read of a rule and which properties its instance has | |
| `Filters`, `MCFilters` | filters, references between them and from a guest's interfaces | `filter`, `guest` are libvirt's; `call` is the locals, the position and the history of each request.  One action per libvirt call or decision |
| `Filters_proofs` | theorems about it | |
| `DomainXml` | pure: `device_parsing.c` and `xmlgen.c`, a definition into `struct domain` and back | one operator per parser and generator |
| `Capabilities` | pure: `capability_parsing.c`, what a host offers by default | |
| `ResourceSettings` | pure: `Virt_RASD.c` and the `*_rasd_to_vdev` of the management service | one operator per conversion |
| `SystemSettings` | pure: `Virt_VSSD.c`, `vssd_to_domain`, `classify_resources`, `update_system_settings`, `_update_resources_for` | one operator per function |
| `Definition`, `MCDefinition` | a guest that is off, and one request after the other on its definition | `guest` is libvirt's definition; `request` is the last request and whether it was served.  One action per method, composed of the four pure modules |
| `Management` | the system management service, over one name | `guest` (its uuid, whether it is defined and runs, the devices stored and live) is libvirt's; `call` is the locals and the position of each request: the copy of the definition, the batch, the uuid; `begun` is history: what a request found, until somebody else changes the guest, and which of its calls failed without being looked at.  One action per libvirt call or decision, with its failure beside it |
| `Management_proofs` | theorems about it | |

`InfoStore` implements `AtomicStore`, `Migration` and `Snapshot` implement
`CimJob`, each by an `INSTANCE ... WITH` and a run that checks the abstract specification.
`Migration` uses the record as `AtomicStore` describes it, as one value.
`Management` and `Definition` share the management service: the first has the
order of its libvirt calls and what overlaps them, with a device as one value; the
second has what each call is given, with one request at a time.

Abstractions.  XML, names, URIs and messages are left out or are members of
small sets.  A value in a record is the uuid it was written for.  A domain is in
one of three states in `Lifecycle` (absent, off, on), which is what
`dom_changed` tells apart together with the list it came from.  In `Snapshot` a
memory is the number of the start it came from, and a file is such a number, or
absent, or being written; the state `create_job` leaves a job in, Status
"Queued" and no JobState, is called "starting"; the requested state that
RequestStateChange records at its end is a `Commit` of `AtomicStore` on which
nothing there depends.  In `Management` a device is one of a few by kind (one that
a running guest can take, one that it can not, one that only the definition has,
the processors) and its setting is the one it was added with, a changed one, or the
zero that the parser makes of the processors' weight; names of devices, their
properties and the indications are left out.  In `Pools` the settings of a pool
are what their check asks for, and a volume is its path.  In `Filters` a rule is
one of two.  In `DomainXml` and what is built on it an XML element, a structure and
an instance are partial functions from field names to values, where a field that is
not there is NULL or not written; an address list stays a sequence, because an
attribute given twice is refused; a URL is the sequence of its parts; `Unit` stands
for 1024.  The order of elements is kept where it has a meaning (the console that a
target port numbers) and a set otherwise.  `Faults` names the calls that may fail, so that a run can choose.

## 3. Runs

| Run | Shows | Bounds |
|---|---|---|
| `lifecycle_control` | `OnePoller`, `ArgsLive`, `CountBounded`, `PollerStops` over every interleaving of calls, failing starts and exits | two platforms and two threads (a third could only repeat the part of the second: a slot has one id), two filters per platform, a count one below its filters, no domain changes |
| `lifecycle_events` | types; `SilentWhenDisabled`, `NoForgottenGuest`, `DeletionReported`, `CreationListed` | one poller, two domains, three changes or failures: enough for a domain to move between the lists, which are counted before, while another fails to be described; listing calls, descriptions, the building and the delivery of an indication may fail |
| `infostore` | types; `NoInheritance`, `OpsFinish` and the refinement of `AtomicStore` | two callers and three inodes (one named, one orphan per caller is the most there can be), two keys, two uuids, one redefinition, one `infostore_delete` by the management service, failing opens and saves, and crashes |
| `migration_job` | types; `FlagCleared`, `ThreadEnds` and the refinement of `CimJob` | one job of each type, every call failing at every point, two operator actions, two tries of each counted loop |
| `migration_race` | `RunsOnce`, `DefinitionKept`, `SuccessMeansThere` | two jobs of any type over three hosts (one of them named localhost), one operator action, failing stores, migrations, undefines and defines |
| `snapshot` | types; `MemoryKept`, `ResetDefines`, `ComesBack` and the refinement of `CimJob` | two jobs of any kind (one whose image the other unlinks or finds), one state change at a time, each of its states but shutdown, which only asks the guest as reboot does; two starts, so that a guest can be started afresh once; every call failing |
| `management` | types; `AloneApplies`, `DestroyedIsGone` | two requests, or one and an operator; batches of up to two (one resource done and one that fails); a disk and a console; two uuids; requests and uuids symmetric; every call failing, those too whose result is not looked at |
| `pools` | types; `NoLeftover`, `DeletedIsGone`, `SteadyIsListed` | two requests at a time, three in all or some of them changes by operators (enough for a name to be freed and taken again between two calls of one request); two names of each of the two types that libvirt lists, one pool of all of them there at first, and one type with a single pool; one volume; every call failing but the undo of a creation, among them the description of a pool that is listed |
| `filters` | `AnswerComplete`, `ChangeIsExact` | two requests and one change by an operator; three filters (one that refers, one that is referred to, one beside them), two interfaces; lists, definitions and the guest's lookup failing (the failing lookup of a filter is left to the theorem: with it the run takes too long) |
| `lifecycle_event` | types; `SlotServed`, `KnownGuests` | one platform (section 7) with two threads (one may start while the other is on its way out), two guests, three changes of guests or failures of libvirt, whose listing calls and descriptions may fail, as may a delivery; threads and guests symmetric; safety only |
| `definition` | `OthersKept`, `OnlyAsked`, `ReadsBack` | two requests, so that the second meets what the first has rewritten; five guests that others defined (KVM, QEMU, Xen paravirtual and full, a container) and the guests the service defines; 56 changes of one resource or of the system, six devices to add, two elements only others write |
| `lifecycle_lost_activation` | the finding of section 7 | the smallest that shows it |

Deadlock is checked in the runs of `Lifecycle` and `InfoStore`.  In the others it
is not: jobs, requests and changes end, the bound on what is asked is reached, and
then nothing need happen.

What the properties exempt, and why:

- `RunsOnce` holds unless an operator started or resumed the guest, two jobs
  overlapped of which one restarts the guest, or a paused guest was to be shut
  down (`exposed`).  The three are real: in each of them the code runs two copies.
- `migration_race` leaves out the failure of `virDomainGetInfo`.  With it
  `domain_online` answers "no" for a guest that runs, and a restarting job starts
  a second copy.
- `FlagCleared` holds while the record can be opened, for jobs that got a thread
  and found their domain: the code gives up on the flag otherwise.
- `NoInheritance` is about callers that do not overlap across a redefinition; a
  caller that opened the record before it still holds the old guest's uuid.  The
  failure of `virDomainGetUUIDString` is left out of that run: after it the record
  is opened without the comparison and without a uuid.
- `MemoryKept` speaks of a memory from the end of `virDomainSave` until the guest
  is restored, started afresh by an operator or a request, or its snapshot
  destroyed.  It does not speak of a memory saved while ApplySnapshot is between
  its restore and its unlink (line 204), nor of one whose file DestroySnapshot
  unlinked while it was written: the code loses both, since they share one path.
- `AloneApplies` and `DestroyedIsGone` speak of a request during which neither an
  operator nor another request changes the guest; others may overlap it with
  whatever they read.  Without that an overlapping change is lost: the later of two
  definitions wins, a device removed meanwhile comes back, and so does a guest
  destroyed meanwhile, for a change defines the whole copy it read.  The weight and
  limit of the processors are left out too: `parse_vcpu_device` keeps only their
  number, so that every change but one of the processors writes them as zero.  A
  failure leaves the device it is about half changed when the running guest took
  it and the definition did not.  A paused guest is changed in its definition only,
  because `domain_online` takes it for one that is off.
- `DestroyedIsGone` exempts what failed in a call whose result DestroySystem does not
  look at and reports as a success: the record, when `infostore_delete` fails (2787);
  the running guest, when `virDomainDestroy` fails (2789, "Okay for this to fail");
  all of the guest, when the second `virDomainLookupByName` fails and is taken for a
  guest that is gone (2793-2797).  `begun` keeps which of them failed in this request.
- `NoLeftover` and `DeletedIsGone` speak of a pool that nobody else changed
  meanwhile, as far as `alone` tells; `NoLeftover` of a libvirt that undefines what
  it is asked to.  `SteadyIsListed` speaks of the pools that ran from the count on,
  unless one was started before the list: the list has the places that were counted.  It
  leaves out a pool that could not be looked up or described: `netpool_instance` and
  `get_diskpool_config` skip it, and the answer succeeds without it
  (`Virt_DevicePool.c:1142-1163`, `1329-1336`).
- `AnswerComplete` exempts a filter that somebody changed meanwhile, a listing that a
  lookup ended early (`churn`), and one whose count or list failed, which is an empty
  list and no error (`acl_parsing.c:486-506`); `ChangeIsExact` speaks of a request that was
  alone.
- `KnownGuests` exempts the guests that the callback could not follow (`missed`):
  events that came while indications were disabled or no filter was active, those
  whose guest had gone when it was looked up, and the events of another platform.
  It exempts too the guests that the first listing overlooked: one of its calls or
  the description of the guest failed, the guest came after the count and had no
  place, or it stopped between the two lists (`cs_util_instance.c:71-123`);
  `update_domain_list` succeeds all the same.
- `OthersKept`, `OnlyAsked` and `ReadsBack` are stated up to the tables in the
  second part of `Definition` (`Dropped`, `Loses`, `SysLoses`, `TargetLoses`,
  `SystemLoses`, `Asked`, `NotKept`), which are the smallest with which they hold:
  each entry is something that the code loses or overwrites, listed in section 7.
- `NoForgottenGuest` and `DeletionReported` exempt a guest whose Deleted indication was
  given up (`lost` of `hist`): skipped while disabled (line 540), not built (547-574) or
  not delivered (151-173, 198-203).  The poller replaces its listing at 699 whatever
  became of the indications, so that such a guest is forgotten for good.
  `SilentWhenDisabled` speaks of pollers; `raise_indication` reads the flag without
  the mutex and may deliver after `DisableIndications` has returned.
- `ImplementsStore` allows what a caller that met another guest's record does when it
  comes to its unlink: it removes what is there then, be it the new record that
  another such caller has made meanwhile (section 7).

## 4. Fairness

Only the provider's own threads are fair.  `Lifecycle` takes strong fairness of
each poller: it is a thread that is scheduled, its condition wait has a timeout
(`wait_for_event`), and no holder of the mutex keeps it, for every batch is
finite (`BatchesEnd`, section 5) and is followed by a wait of seconds, so that a
thread that keeps asking for the mutex gets it.  `InfoStore` takes strong fairness of each caller for the
same reason: a caller that waits in flock gets a lock that is free again and
again.  `Migration` and `Snapshot` take weak fairness of each job's thread, which
waits for nobody.  `Management`, `Pools`, `Filters` and
`Definition` state no liveness and assume no fairness: a request waits for no
other.  Nor does `LifecycleEvent`: its thread waits in libvirt's event loop, which
this project does not own.  Nothing is assumed of the CIMOM, of operators, or of guests: a guest
asked to shut down may never do so.

## 5. Proofs

The theorems hold for every value of the constants that the modules' assumptions
admit: any number of platforms, threads, domains, jobs, hosts, requests, names, devices
and resources in a request, and any bounds.  Where a theorem needs a call not to
fail it says so with an ASSUME.

`Lifecycle_proofs` rests on `CtlInv`: the types of the control variables;
`SlotOwned`, a living poller's platform has that poller's id and live arguments;
`MutexHeld`, a poller owns the mutex exactly at the positions in `Holding`; and
the two properties `CountBounded` and `SilentWhenDisabled` themselves.
`OnePoller` and `ArgsLive` are not inductive: that a platform has one poller
follows from the id being one value, and that its arguments live from no handler
touching them while the id is set.  `SilentWhenDisabled` needs `MutexHeld`,
because it is the mutex that keeps `DisableIndications` away from a delivery.

`DataInv` is about a poller's locals.  `NoForgottenGuest` alone is not inductive: a
delivery that takes a domain out of what was reported, or puts one in, says nothing
of the listing.  `Idle` adds that an indication is in hand only while one is
delivered and that the first listing is still to come before a poller's start;
`CreatedListed` that a domain whose creation is due, or in hand, is in the new
listing, so that reporting it does not break `Remembers`; a Deleted indication that is
skipped, not built or not delivered adds its domain to those given up; and the types add that
only the listing a poller started from can hold zeroed entries, since a later
listing that fails is thrown away (line 662).  With this each step of the poller
keeps what was reported within the listing the next comparison starts from, or
within the deletions that are due; steps of other threads and of the hypervisor
touch neither (`OnePollerSteps`).

`BatchesEnd` is what the fairness of section 4 is justified by.  `Course` says where
a poller's step leads; from it `Left` counts down, from at most ten steps before the
comparison and two for each difference, until the mutex is let go.  It assumes that
the domains are finitely many, so that the differences are (`EventsFinite`).

`LifecycleEvent_proofs` proves `SlotServed`, which is inductive once the slots have
their fields and a thread that runs or gave up has its platform.  Only a start and
an exit change an id, and the callback, though it works on the list of any platform
and gives the mutex up, never does.  `TypeInv` is the part of the types that holds
for any number of platforms: the contents of lists and queues, who keeps the mutex
over several calls, and that a thread has the locals of a callback exactly while it
is in one.

The rest of `TypeOK`, that a callback finds the arguments and the entry it left when
it gave the mutex up, and `KnownGuests` fail with two platforms (section 7).  They
are proved for every instance with one platform (`TypesCorrect`, `GuestsKnown`):
there a thread handles the events of its own platform only (`OwnEvents`), as
`OnePlatform` derives from `TypeInv`.  The lemmas they rest on are stated under
`OwnEvents`, which nothing in the code ensures when there are more platforms.
`Held` is inductive under it: the arguments of a platform go only
with the thread that serves it, and a list grows, or loses an entry in the step of
the callback itself, which then drops its own.  For `KnownGuests` the invariant is
`Follows`: a guest that is defined, and that the provider could follow, is in the
list unless a definition of it is still to be handled, by an event in the queue or
by the callback that is at work (`Handles`); and no removal comes after that
definition (`AddedAfter`), or else the guest would be taken out again.  It has to
speak of the whole queue, for the events of one guest are handled in order, and of
a thread that is still listing, which meets the guest later, or has read it, or has
overlooked it, and then says so in `missed`.  The
search of the first entry of a guest needs that a non-empty set of numbers has a
least one (`Least`).  `Domains` is assumed to be finite (`DomainsAssumption`): the
listing that ends must have gone over all of them.

`InfoStore_proofs` has two invariants.  `Inv` says what a caller has at each of its
positions: a file from its open to its close, the lock of that file from its flock,
and while it has the lock a file that holds what it loaded, or nothing once it is
truncated; what it is about to write is what it loaded with at most one key set.  A
file that nobody can reach is empty, and there is always one such, because a caller
that opens holds none.  Two callers never write to one file, so the record of
`Record`, which looks at the writer of the named file while there is one, is well
defined.  `StoreImplemented` maps a caller to a user of `AtomicStore` that has the
record open when its file is the one with the name, and is cut off when its file
has lost the name.  A caller that has the record open and writes takes it from what
was loaded, which is what it still is, to that with its key set (`Commit`); a caller
that is cut off changes nothing; and the steps that lose the record are those that
`AtomicStore` names, each with its guard: an unlink by a caller that met another
guest's uuid and has not opened again (`Remove`), a failing save (`Spoil`),
`infostore_delete` (`Destroy`), a crash (`Crash`).  `Kin` is what `NoInheritance`
needs: while the uuids of the callers agree, every document holds values of its own
uuid only, and a caller that opens again after a deletion, when the uuid is not
compared (line 297), can only meet files that were made since, by callers of its
own uuid.  `NothingInherited` assumes that libvirt can tell a guest's uuid.
Two theorems are the safety part of `OpsFinish`.  `WaitersHoldNothing` follows from
`Inv`: a caller in flock owns no lock, and who owns the one it wants waits for
nothing.  `CallerCountsDown` needs `OpenedOnce`: a store is stale before it is opened
again and never after, so that a caller goes back to its open once at most.

`Migration_proofs` rests on the types, on what a job's position says of what it
was asked for, and on `DefinitionKept` and `SuccessMeansThere`, strengthened by
the fact that nobody undefines a guest at a destination other than the local
host.  `MigrationIsCimJob` is the refinement: every step of the
migration service is a step of `CimJob` or changes neither the state nor the
indications of a job.
`RunsOnce` says nothing of a job, so it is not inductive.  `RunInv` adds what a
job that restarts the guest knows while it has met no other one: no other job is
alive; while it waits for the shutdown the guest runs nowhere else; from the look
that saw the guest down until the job starts it, it runs nowhere.
`RunsAtMostOnce` assumes that the state of the guest can be read, for
domain_online takes an unreadable state for a guest that is off.  `FlagInv` names
the job that is still to clear the flag, or never will, whoever set it;
`FlagIsCleared` assumes that the record can be opened.
`ThreadCountsDown` is the safety part of `ThreadEnds`: `Left` orders the positions
of a thread and, within a position, the tries a loop has left.

`Snapshot_proofs` rests on three facts: the types; `OneSaver`, a guest is saved by
one job at a time, because libvirt refuses a second save; and `Safe`, which says
more than `MemoryKept`: while a memory is owed the guest is also not being saved
and no job stands before its unlink.  `MemoryKept` alone is not inductive, for a
job before its unlink, or one whose save is about to fail, would remove the file
in one step.  `Safe` is kept because such a job can only get there while the guest
runs, and a running guest is owed nothing.  `ResetKeepsGuest` adds that nothing
undefines a guest and that a reset which has not failed has passed its create.
`SnapshotIsCimJob` is the refinement; it needs to know what JobState can be where
a thread is: none of the failures lets a thread go on after it has reported the
end.  `RestoreDecides` is the safety part of `ComesBack`: the positions of a thread
that has begun only go on, whatever the state changes do to the guest, and it leaves
its restore with the guest running or the job failed.

`Pools_proofs` rests on the types with three facts added to them: `Placed`, what
a request is for and which name it has at each position (a request that defines
or destroys names a pool that libvirt lists); `Ensured`, what is known of the pool
when nobody else changed it (a creation that has failed before its start has
undone its definition; a deletion past its undefine has the pool stopped and
undefined); and that every definition has a number of its own, no greater than
`made`, so that a pool that takes a freed name is another one.  Steps of others
clear `alone`, which is why `Ensured` is kept; `DeletedIsGone` needs the numbers,
because it also speaks of a pool that others changed.  `FailuresLeaveNothing`
assumes that the undo of a creation does not fail.  `SteadyPoolsListed` has an
invariant of its own, `Complete`: from the count to the list either a pool was
started, and nothing is promised, or the pools that ran since the count are exactly
those that run and fit in the places counted, so that the list has them all; a pool
whose description fails leaves `steady` in that step.

`Filters_proofs` rests on the types, on what a request is for and has read where it
stands (`Placed`), and on two facts that steps of others keep or excuse:
`Undisturbed`, that what a request read to define is still so, which a step of
another ends by taking `alone` away; and `Gathered`, that every filter which is to be
in the answer is still to be looked up or has added what it has to.  For a list that
is over early when a filter is not found this needs that all listed filters are
there and understood, which is what `churn` keeps track of, and that the list has a
place for each; parent_to_child needs neither, for it passes over what it does not
find.  That references stay without circles is libvirt's refusal at every definition.
`ChangesAreExact` adds which step a request takes when it ends where it defines. It
needs no assumption about failures: a failing count, list or lookup sets `churn`, or
takes the filter out of those that are promised.

`Management_proofs` rests on `Placed`, what a request was asked for where it
stands, and on `Progress`, what is true of the guest where it stands if nobody else
has changed it: the resources before the next one are applied, no other device is
changed, the copy is the definition but for the resource being changed, and the
running guest has that one already when the definition is about to.  `AloneApplies`
speaks of requests that return and says nothing of the copy, so it is not
inductive.  A step of another request either leaves the guest alone or takes
`alone` away, so one lemma for each kind (`QuietStep`, `LoudStep`) reduces every
action to the request that takes it.  `DestroyedStaysGone` needs `Gone`, what a
DestroySystem that nobody disturbed has removed where it stands, but for the calls
that failed without its looking (`ignored`); it assumes nothing of libvirt.

## 6. Model-checked only

Liveness under fairness (`PollerStops`, `DeletionReported`, `CreationListed`,
`OpsFinish`, `ThreadEnds`, `ComesBack`) and everything about ENABLED is out of the
proof system's reach and is checked by TLC.  For `OpsFinish`, `ThreadEnds` and
`ComesBack` the step that fairness has to be applied to is proved for every value of
the constants (`CallerCountsDown`, `ThreadCountsDown`, `RestoreDecides`): there is
less left to do after every step of the thread, and no step of another adds to it.
What stays with TLC is that the thread always has a step it can take.  For the
three of `Lifecycle` only `BatchesEnd` is proved.

Model-checked only is also what would need induction over data: `OthersKept`,
`OnlyAsked` and `ReadsBack`, the conversions of `Definition`, are checked over the
guests and changes of `MCDefinition`.  With two platforms and a shared event loop the
types and `KnownGuests` of `LifecycleEvent` do not hold (section 7).

## 7. Findings

A filter activated while the poller is on its way out gets no poller
(`lifecycle_lost_activation`): the thread id stays set from the poller's last look
at the count until its exit, which wipes the count.

The following is what the code does, seen while modelling.  The models do it too,
and properties exempt it by name; five of them are stated as properties that no run
checks, because they do not hold.

*Information store.*  Two callers that both met the record of an earlier guest of the
name unlink one after the other, without a lock (`infostore.c:269`): the second takes
away the new record that the first has made, with the key it has set
(`StaleRemoved` of `InfoStore`).

*Lifecycle, migration, snapshots.*
- A Deleted indication that is skipped while disabled, that cannot be built or is not
  delivered is not tried again: the listing it was found with is replaced
  (`Virt_ComputerSystemIndication.c:699`).
- `get_domain_list` counts both kinds of domains before it lists them and reports a
  failing list as a short one (`cs_util_instance.c:71-123`).
- A guest that disappears during the first snapshot makes the poller follow a NULL
  pointer (`SurvivesPartialSnapshot` of `Lifecycle`).  A guest that stops between
  the two listings of `get_domain_list` is in neither and is reported deleted.
- The migrating flag is set for the guest at the destination, so that no guest is
  ever shown as migrating (`MigratingShown` of `Migration`); a paused guest counts as
  shut down, and a restarting migration starts a second copy beside it
  (`ShutdownMeansOff`).
- A guest is started afresh although it has a snapshot, when the snapshot is taken
  between the look for an image and the start (`NotBootedOver` of `Snapshot`).
- In the event build the handling of `UNDEFINED_REMOVED` is nested in the branch for
  `DEFINED` (line 1301); a description that fails drops the indication of a deletion;
  the threads of two platforms share libvirt's one default loop (1223, 1390),
  so that with two platforms one thread can free the list and the arguments of its
  platform while the other is in a callback for it, between two of its critical
  sections (`TypeOK` of `LifecycleEvent` fails).

*Requests on guests.*  What section 3 says of overlapping changes and of the
processors' weight.  DestroySystem reports success when the guest could not be
destroyed, when its record could not be deleted, and when the second lookup of the
guest failed, which leaves it as it was
(`Virt_VirtualSystemManagementService.c:2787-2797`).

*Pools.*  A volume that could not be deleted is reported deleted, because
`delete_resource` hands on -1 (`pool_parsing.c:447`) and its caller takes only 0 for
a failure.  A lookup that fails tells a creation that the name is free.  A
pool that cannot be described is left out of an enumeration that succeeds
(`Virt_DevicePool.c:1142-1163`, `1329-1336`).

*Filters.*  A filter whose references change is written without its rules and its
priority (`xmlgen.c:1763`).  The result of a deletion is inverted
(`Virt_FilterList.c:366`).  Filters that cannot be counted or listed are an empty list
(`acl_parsing.c:486-506`).  `parse_rule_id` never matches; `update_domain` always
succeeds; the hardware type of an ARP rule is shown as its protocol; the IP parser
looks for "dstmacmaks".

*Definitions.*  With any change of a guest: devices that are not parsed (network
disks, host devices, spice) are gone; lost are the boot order of devices, outbound
bandwidth, the shares of the processors, rawio and sgio of file disks, the queues of
a controller (written as "queueus"), `on_reboot` and features other than
ACPI, APIC and PAE, and of a KVM or QEMU guest its loader and kernel; a guest without a boot
list gets "hd"; a container gets one console more.  With a change of the device
itself: the filter of an interface and the display of SDL are lost, and a masked
password is written back.  In vain are asked: Reservation beside VirtualQuantity,
FilterRef, NetworkName of a network interface (its PoolID counts), anything of a
controller that has an address; units other than the default scale size and limit alike.  A
container's disk needs its MountPoint, its processors are refused, and a guest
defined without processors gets zero, which libvirt refuses.  VNC turned into SDL, and a console turned
into another type, take over what the union held before.  A floppy with a file that
does not exist, or an interface of an unknown type, makes every change fail.  With a
change of the system: QEMU becomes KVM where the host has it, a guest without a boot
list gets the host's default machine, every clock but the local one is UTC.  A
modification's indication shows the new values as the previous ones too
(`Virt_VirtualSystemManagementService.c:3403`).

## 8. Not modelled

- Of the system management, the reference configuration (`get_reference_domain`),
  autostart, and the indications.  An array of references of which one before the
  last names no device leaves a hole that the code then follows; that request stops
  there in `Management`.
- Of the pools, their XML, their capacities and how a device finds its pool.
- Of the settings, the templates of `Virt_SettingsDefineCapabilities.c` and
  `Virt_AllocationCapabilities.c`, and the device instances of `Virt_Device.c`:
  computed on every request and kept nowhere.
- Of the computer system, the queries; only the `EnabledState` they report is
  there.
- Migration checks, the external check program and the copying of SSH keys: they
  change neither guests nor jobs.  A crash of the provider during a migration: the
  code has no recovery, the job stays RUNNING.
- Associations, profiles, redirection, the switch service: joins of the instances of
  others, readers of /proc and of a tool's output.  Schema, registration, build and
  packaging: no behaviour of their own.

## 9. Plan

Done: `Lifecycle`, `LifecycleEvent`, `InfoStore` against `AtomicStore`, `Migration`
and `Snapshot` against `CimJob`, `Management`, `Pools`, `Filters`, `Definition`; and
the proofs of section 5.  Left, in order of importance:

1. one promise for both builds of the indication provider, an abstract module that
   `Lifecycle` and `LifecycleEvent` implement: every guest that came or went is told
   of, once each, unless nobody listened;
2. the templates of SettingsDefineCapabilities, as operators beside
   `ResourceSettings`: that every template is accepted by AddResourceSettings;
3. the capacities of pools and the pool of a device, as operators beside `Pools`.
