---------------------------- MODULE DataManagement ----------------------------
(* Retention, pruning and backups (handlers_forms.go, handlers_datamgmt.go,    *)
(* dm_prune.go, handlers_mutations.go): requests of many statements, which     *)
(* interleave with those of other requests and fail one by one.                *)
(*                                                                             *)
(* A job is a request at work; its statements are those still to be made.      *)
EXTENDS Integers, Sequences, Functions

CONSTANTS
    Clerks,         \* who asks
    Saves,          \* forms: [place, encrypt, password, days, hours, clear, apply]; 0 is blank
    MaxJobs,        \* bound on the requests
    MaxDmFaults     \* bound on statements that fail

VARIABLES
    setting,    \* data_management.*: [FormKeys -> value], 0 if there is none
    ttlOf,      \* the TTL of each table, 0 if there is none
    pruneLock,  \* dmPruneMu
    backups,    \* system.backups, the oldest first: [status, place]
    job,        \* [Clerks -> request at work]
    replied,    \* history: the job that was answered last, until the next begins
    secret,     \* history: a password was saved, and not cleared since
    jobs, dmFaults

vars == <<setting, ttlOf, pruneLock, backups, job, replied, secret, jobs, dmFaults>>

DayTables == <<"otel_logs">>            \* dmTTLTables and
MetricTables == <<"metrics_gauge">>     \* dmMetricTables, of which one stands for three
AllTables == DayTables \o MetricTables
FormKeys == <<"place", "encrypt", "password", "days", "hours">>
Retention(t, of) == IF t \in Range(DayTables) THEN of.days ELSE of.hours

NoForm == [place |-> 0, encrypt |-> 0, password |-> 0, days |-> 0, hours |-> 0, clear |-> FALSE, apply |-> FALSE]
\* todo: its statements; errors: it will say so; done: what a prune got done;
\* base, row: rows of backups, 0 for none; place, basePlace: where a backup goes,
\* and where its base is looked for; without: it lacks a password; clean,
\* for history: nothing overlapped it and no statement of it failed.
NoJob == [kind |-> "none", todo |-> <<>>, form |-> NoForm, period |-> FALSE, errors |-> FALSE, done |-> {},
          base |-> 0, row |-> 0, place |-> 0, basePlace |-> 0, encrypted |-> FALSE, without |-> FALSE, clean |-> TRUE]

Init ==
    /\ setting = [place |-> 1, encrypt |-> 0, password |-> 0, days |-> 0, hours |-> 0]
    /\ ttlOf = [t \in Range(AllTables) |-> 0] /\ pruneLock = FALSE /\ backups = <<>>
    /\ job = [c \in Clerks |-> NoJob] /\ replied = NoJob /\ secret = FALSE
    /\ jobs = 0 /\ dmFaults = 0

-----------------------------------------------------------------------------
Statement(s, about) == <<s, about>>
ForEach(s, list) == [i \in DOMAIN list |-> Statement(s, list[i])]

Filled(tables, retention) == IF retention = 0 THEN <<>> ELSE ForEach("ttl", tables)
\* Faulty form: the tables of metrics are forgotten.
FormTodoOfDays(f) == ForEach("save", FormKeys) \o IF f.apply THEN Filled(DayTables, f.days) ELSE <<>>
\* The fields are saved one by one, then the TTL of each field that is filled.
FormTodo(f) ==
    ForEach("save", FormKeys)
    \o IF f.apply THEN Filled(DayTables, f.days) \o Filled(MetricTables, f.hours) ELSE <<>>
\* Rows past the period are deleted from each table, then each is merged.
PruneTodo(period) == (IF period THEN ForEach("delete", AllTables) ELSE <<>>) \o ForEach("optimize", AllTables)
BackupTodo(kind) ==
    (IF kind = "incremental" THEN <<Statement("list", 0)>> ELSE <<>>)
    \o <<Statement("encrypt", 0), Statement("backup", 0), Statement("finish", 0)>>

Start(c, j) ==
    /\ job[c] = NoJob /\ jobs < MaxJobs /\ jobs' = jobs + 1
    \* Jobs that overlap know it of each other.
    /\ LET alone == \A d \in Clerks : job[d] = NoJob IN
       job' = [d \in Clerks |-> IF d = c THEN [j EXCEPT !.clean = alone] ELSE [job[d] EXCEPT !.clean = @ /\ job[d] = NoJob]]
    /\ UNCHANGED <<setting, ttlOf, backups, secret, dmFaults>> /\ replied' = NoJob
StartForm(c, f) == Start(c, [NoJob EXCEPT !.kind = "form", !.todo = FormTodo(f), !.form = f]) /\ UNCHANGED pruneLock
\* A prune that finds the lock taken is answered with 409.
StartPrune(c, period) ==
    /\ ~pruneLock /\ pruneLock' = TRUE
    /\ Start(c, [NoJob EXCEPT !.kind = "prune", !.todo = PruneTodo(period), !.period = period])
\* Where backups are off or have no place, the request ends here.
StartBackup(c, kind) ==
    /\ Start(c, [NoJob EXCEPT !.kind = kind, !.todo = BackupTodo(kind), !.place = setting.place])
    /\ UNCHANGED pruneLock

\* What remains of a job after its statement, which failed or not.
Goes(c, fails, j) ==
    /\ dmFaults' = dmFaults + (IF fails THEN 1 ELSE 0) /\ dmFaults' <= MaxDmFaults
    /\ job' = [job EXCEPT ![c] = [j EXCEPT !.todo = Tail(@), !.clean = @ /\ ~fails]]
    /\ UNCHANGED <<pruneLock, replied, jobs>>
At(c, s) == job[c].todo # <<>> /\ Head(job[c].todo)[1] = s
About(c) == Head(job[c].todo)[2]
\* Faulty form: the last statement decides.
NotedLast(j, fails) == [j EXCEPT !.errors = fails]
Noted(j, fails) == [j EXCEPT !.errors = @ \/ fails]

\* Faulty form: a blank password is saved like any other blank.
savedAsTyped(f, key) == IF key = "password" /\ f.clear THEN 0 ELSE f[key]
\* A secret is cleared on demand, and kept if its field is blank.
saved(f, key) ==
    IF key # "password" THEN f[key]
    ELSE IF f.clear THEN 0
    ELSE IF f.password = 0 THEN setting.password ELSE f.password
handleSettingsDataManagement(c, fails) ==
    LET f == job[c].form
        key == About(c)
    IN /\ At(c, "save")
       /\ setting' = IF fails THEN setting ELSE [setting EXCEPT ![key] = saved(f, key)]
       /\ secret' = IF key # "password" \/ fails THEN secret
                    ELSE ~f.clear /\ (f.password # 0 \/ secret)
       /\ Goes(c, fails, job[c])
       /\ UNCHANGED <<ttlOf, backups>>

applyDMTTL(c, fails) ==
    /\ At(c, "ttl")
    /\ ttlOf' = IF fails THEN ttlOf ELSE [ttlOf EXCEPT ![About(c)] = Retention(About(c), job[c].form)]
    /\ Goes(c, fails, Noted(job[c], fails))
    /\ UNCHANGED <<setting, backups, secret>>

\* A deletion from a table of metrics is tried in two forms, and fails with both.
runDmPrune(c, fails) ==
    /\ At(c, "delete") \/ At(c, "optimize")
    /\ Goes(c, fails, Noted([job[c] EXCEPT !.done = IF fails THEN @ ELSE @ \cup {Head(job[c].todo)}], fails))
    /\ UNCHANGED <<setting, ttlOf, backups, secret>>

\* Faulty form: the newest backup is the base, however it ended.
newestOfAny == Len(backups)
\* The newest backup that is complete, 0 if there is none.
newestComplete ==
    LET complete == {i \in DOMAIN backups : backups[i].status = "complete"} IN
    IF complete = {} THEN 0 ELSE CHOOSE i \in complete : \A k \in complete : k <= i
\* A failed listing is taken for an empty one, a failed read for a setting that
\* is off.
listDmBackups(c, fails) ==
    /\ At(c, "list")
    /\ Goes(c, fails, [job[c] EXCEPT !.base = IF fails THEN 0 ELSE newestComplete,
                                     !.basePlace = setting.place])
    /\ UNCHANGED <<setting, ttlOf, backups, secret>>
Encrypt(c, fails) ==
    /\ At(c, "encrypt")
    /\ LET on == ~fails /\ setting.encrypt = 1
           without == on /\ setting.password = 0
       IN Goes(c, fails, [job[c] EXCEPT !.errors = without, !.without = without, !.encrypted = on,
                                        !.todo = IF without THEN SubSeq(@, 1, 1) ELSE @])
    /\ UNCHANGED <<setting, ttlOf, backups, secret>>
Backup(c) ==
    /\ At(c, "backup")
    /\ backups' = Append(backups, [status |-> "creating", place |-> job[c].place])
    /\ Goes(c, FALSE, [job[c] EXCEPT !.row = Len(backups')])
    /\ UNCHANGED <<setting, ttlOf, secret>>
\* A backup cannot be built on one that is not whole, or is elsewhere.
Finish(c, fails) ==
    LET j == job[c]
        based == j.base # 0 => backups[j.base].status = "complete" /\ backups[j.base].place = j.basePlace
        ends == IF based /\ ~fails THEN "complete" ELSE "failed"
    IN /\ At(c, "finish")
       /\ backups' = [backups EXCEPT ![j.row].status = ends]
       /\ Goes(c, fails, [j EXCEPT !.errors = ends = "failed"])
       /\ UNCHANGED <<setting, ttlOf, secret>>

\* The answer; a prune gives up its lock.
Answer(c) ==
    /\ job[c].kind # "none" /\ job[c].todo = <<>>
    /\ replied' = job[c] /\ job' = [job EXCEPT ![c] = NoJob]
    /\ pruneLock' = (pruneLock /\ job[c].kind # "prune")
    /\ UNCHANGED <<setting, ttlOf, backups, secret, jobs, dmFaults>>

\* The process dies; the database forgets its list of backups.
Crash ==
    /\ dmFaults < MaxDmFaults /\ dmFaults' = dmFaults + 1
    /\ job' = [c \in Clerks |-> NoJob] /\ pruneLock' = FALSE /\ backups' = <<>> /\ replied' = NoJob
    /\ UNCHANGED <<setting, ttlOf, secret, jobs>>

Next ==
    \/ Crash
    \/ \E c \in Clerks :
        \/ \E f \in Saves : StartForm(c, f)
        \/ \E period \in BOOLEAN : StartPrune(c, period)
        \/ \E kind \in {"full", "incremental"} : StartBackup(c, kind)
        \/ \E fails \in BOOLEAN :
            \/ handleSettingsDataManagement(c, fails)
            \/ applyDMTTL(c, fails)
            \/ runDmPrune(c, fails)
            \/ listDmBackups(c, fails)
            \/ Encrypt(c, fails)
            \/ Finish(c, fails)
        \/ Backup(c)
        \/ Answer(c)
Spec == Init /\ [][Next]_vars

-----------------------------------------------------------------------------
(* Properties.                                                               *)

\* A prune that says it went well deleted from every table, if it was given a
\* period, and merged every table; two never run at once (dm_prune.go:114, 240).
PrunesAreWhole ==
    /\ replied.kind = "prune" /\ ~replied.errors => replied.done = Range(PruneTodo(replied.period))
    /\ \A c, d \in Clerks : job[c].kind = "prune" /\ job[d].kind = "prune" => c = d

\* After a form that applies its retentions, in turn and with all its statements
\* made, each table has the TTL that is stored for it (handlers_forms.go:962).
RetentionIsInForce ==
    replied.kind = "form" /\ replied.clean /\ replied.form.apply =>
        \A t \in Range(AllTables) : Retention(t, setting) # 0 => ttlOf[t] = Retention(t, setting)

\* A password that was saved is there for the backups that follow, until it is
\* cleared on demand (handlers_forms.go:957).
SecretStays == secret => setting.password # 0

\* A backup in the clear, without a failed read, is one for which encryption was
\* off; alone and with no failed statement a backup succeeds, whatever became of
\* the ones before it, unless its base is elsewhere (handlers_mutations.go:206).
BackupsGoOn ==
    replied.kind \in {"full", "incremental"} /\ replied.clean =>
        /\ ~replied.without => (replied.encrypted <=> setting.encrypt = 1)
        /\ replied.errors =>
            \/ replied.without
            \/ replied.base # 0 /\ backups[replied.base].place # replied.basePlace
===============================================================================
