------------------------------- MODULE Onboarding -------------------------------
(* The onboarding wizard: what a repository has already (github_inspect.go),   *)
(* and the issues that ask for the rest (onboarding_issues.go).                *)
(*                                                                             *)
(* An issue is found again by its title among the newest open ones, replaced   *)
(* while nobody has touched it and left alone after that.  Requests overlap,   *)
(* people work on the issues meanwhile, listings fail and answers are lost.    *)
EXTENDS Integers, Sequences, FiniteSets, FiniteSetsExt

CONSTANTS
    Wizards,        \* requests
    Forms,          \* what is asked for: [kinds (a sequence), assign, realtime]
    Repos,          \* [workflows, manifests]: sequences of [ci, otel]
    githubIssueDedupeCandidateMax,
    WorkflowMax,    \* the workflow files that are looked into: 10
    MaxIssues, MaxGithubFaults, MaxPeople \* bounds

OnboardingAssumption ==
    /\ \A f \in Forms : f.kinds \in Seq(STRING) /\ f.assign \in BOOLEAN
    /\ githubIssueDedupeCandidateMax \in Nat

VARIABLES
    issues,     \* GitHub's issues and pull requests, by number
    wizard,     \* [Wizards -> where it is]
    items,      \* sobs_github_work_items, the wizard's
    ciKey,      \* the app's push key: [configured, enabled]
    inspected,  \* the last inspection
    people,     \* changes of others so far
    githubFaults \* calls that failed so far

vars == <<issues, wizard, items, ciKey, inspected, people, githubFaults>>
Numbers == DOMAIN issues
Idle == [at |-> "idle"]
Done == [at |-> "done"]
Init ==
    /\ issues = <<>> /\ items = {} /\ people = 0 /\ githubFaults = 0
    /\ wizard = [w \in Wizards |-> Idle] /\ inspected = Idle
    /\ ciKey = [configured |-> FALSE, enabled |-> FALSE]

-----------------------------------------------------------------------------
(* What a repository has.                                                     *)

\* What becomes of a file that is asked for.  One without base64 content (a large
\* one) is taken for empty, and so is a manifest for which GitHub says 404, which
\* is also what it says to a token that may not see it.
Answers == {"read", "failed", "blank"}
\* The files of a directory or a list that come and tell of a thing; they are read
\* in turn until all that is looked for is found.
Tells(files, how, k) == {i \in DOMAIN files : how[i] = "read" /\ files[i][k]}
LookedInto(files, how, keys) ==
    {i \in DOMAIN files : \E k \in keys : \A j \in Tells(files, how, k) : i <= j}
\* Faulty form: a file that cannot be read is an empty one.
UnreadQuietly(files, how, keys) == {}
\* A call that fails is told, an empty file is not.
Unread(files, how, keys) == {i \in LookedInto(files, how, keys) : how[i] = "failed"}
Capped(s) == SubSeq(s, 1, IF Len(s) < WorkflowMax THEN Len(s) ELSE WorkflowMax)
\* A listing that GitHub answers with 404, or with no list, is of no workflows.
\* The manifests are looked into for what no workflow tells.
inspectRepoForOnboarding(repo, listing, flowsHow, manifestsHow) ==
    LET flows == IF listing = "read" THEN Capped(repo.workflows) ELSE <<>>
        ci == Tells(flows, flowsHow, "ci") # {}
        inFlows == Tells(flows, flowsHow, "otel") # {}
        inManifests == Tells(repo.manifests, manifestsHow, "otel") # {}
        failed == \/ Unread(flows, flowsHow, {"ci", "otel"}) # {}
                  \/ ~inFlows /\ Unread(repo.manifests, manifestsHow, {"otel"}) # {}
    IN IF listing = "failed" THEN [hasActions |-> FALSE, ci |-> FALSE, otel |-> FALSE, failed |-> TRUE]
       ELSE [hasActions |-> flows # <<>>, ci |-> ci, otel |-> inFlows \/ inManifests,
             failed |-> failed]
Inspect(repo) ==
    /\ inspected = Idle /\ issues = <<>> /\ \A w \in Wizards : wizard[w] = Idle
    /\ UNCHANGED <<issues, wizard, items, ciKey, people, githubFaults>>
    /\ \E listing \in Answers, flowsHow \in [DOMAIN Capped(repo.workflows) -> Answers],
          manifestsHow \in [DOMAIN repo.manifests -> Answers] :
        inspected' = [at |-> "done", repo |-> repo, listing |-> listing, flows |-> flowsHow,
                      manifests |-> manifestsHow,
                      found |-> inspectRepoForOnboarding(repo, listing, flowsHow, manifestsHow)]

-----------------------------------------------------------------------------
(* The requests.                                                              *)

Go(w, to) == wizard' = [wizard EXCEPT ![w] = to]
Kind(w) == Head(wizard[w].todo)
\* On to the next issue of the form.
Advance(w) ==
    LET rest == Tail(wizard[w].todo)
    IN Go(w, IF rest = <<>> THEN Done ELSE [at |-> "list", todo |-> rest, assign |-> wizard[w].assign])
Fault == githubFaults < MaxGithubFaults /\ githubFaults' = githubFaults + 1
quiet == <<inspected, people>>

\* A push key is made unless there is one, and pushes are switched on, before
\* any issue is looked at.
Start(w, form) ==
    /\ wizard[w] = Idle /\ form.kinds # <<>> /\ inspected' = Idle
    /\ UNCHANGED <<issues, items, people, githubFaults>>
    /\ Go(w, [at |-> "list", todo |-> form.kinds, assign |-> form.assign])
    /\ ciKey' = IF form.realtime THEN [configured |-> TRUE, enabled |-> TRUE] ELSE ciKey

\* Faulty form: the oldest ones.
PageOfOldest ==
    LET open == {n \in Numbers : issues[n].open}
    IN {n \in open : Cardinality({k \in open : k < n}) < githubIssueDedupeCandidateMax}
\* The newest open ones, pull requests among them; a listing that fails is empty.
Page ==
    LET open == {n \in Numbers : issues[n].open}
    IN {n \in open : Cardinality({k \in open : k > n}) < githubIssueDedupeCandidateMax}
\* Faulty form: pull requests are taken for issues.
CandidatesAndPulls(title) == {n \in Page : issues[n].title = title}
Candidates(title) == {n \in Page : ~issues[n].pull /\ issues[n].title = title}
\* (asOf: the newest issue there was; blind: the listing failed.)
Listed(w, found, blind) ==
    Go(w, [at |-> IF found = {} THEN "create" ELSE "detail", todo |-> wizard[w].todo,
           assign |-> wizard[w].assign, number |-> IF found = {} THEN 0 ELSE Max(found),
           asOf |-> Len(issues), blind |-> blind])
fetchOpenGithubIssues(w) ==
    /\ wizard[w].at = "list" /\ UNCHANGED <<issues, items, ciKey, quiet>>
    /\ \/ Listed(w, Candidates(Kind(w)), FALSE) /\ UNCHANGED githubFaults
       \/ Fault /\ Listed(w, {}, TRUE)

Outcome(w, number, decision) ==
    Go(w, [at |-> IF wizard[w].assign THEN "assign" ELSE "persist", todo |-> wizard[w].todo,
           assign |-> wizard[w].assign, number |-> number, decision |-> decision,
           copilot |-> "not_requested"])
\* Made at GitHub, whether or not the answer arrives.
createGithubIssueRecord(w) ==
    /\ wizard[w].at = "create" /\ Len(issues) < MaxIssues /\ UNCHANGED <<items, ciKey, quiet>>
    /\ LET issue == [title |-> Kind(w), pull |-> FALSE, open |-> TRUE, touched |-> FALSE,
                     copilot |-> FALSE, asOf |-> wizard[w].asOf, blind |-> wizard[w].blind, byWizard |-> TRUE]
       IN \/ /\ issues' = Append(issues, issue) /\ UNCHANGED githubFaults
             /\ Outcome(w, Len(issues) + 1, "created")
          \/ Fault /\ issues' \in {issues, Append(issues, issue)} /\ Advance(w)
githubIssueIsNewState(n) == issues[n].open /\ ~issues[n].touched
githubGetIssueDetail(w) ==
    /\ wizard[w].at = "detail" /\ UNCHANGED <<issues, items, ciKey, quiet>>
    /\ \/ /\ UNCHANGED githubFaults
          /\ IF githubIssueIsNewState(wizard[w].number)
             THEN Go(w, [wizard[w] EXCEPT !.at = "update"])
             ELSE Outcome(w, wizard[w].number, "reused")
       \/ Fault /\ Outcome(w, wizard[w].number, "reused")
\* Writing to an issue touches it.
updateGithubIssueRecord(w) ==
    /\ wizard[w].at = "update" /\ UNCHANGED <<items, ciKey, quiet>>
    /\ LET written == [issues EXCEPT ![wizard[w].number].touched = TRUE]
       IN \/ issues' = written /\ UNCHANGED githubFaults /\ Outcome(w, wizard[w].number, "updated")
          \/ Fault /\ issues' \in {issues, written} /\ Advance(w)
assignIssueToCopilot(w) ==
    /\ wizard[w].at = "assign" /\ UNCHANGED <<items, ciKey, quiet>>
    /\ LET Told(status) == Go(w, [wizard[w] EXCEPT !.at = "persist", !.copilot = status])
           assigned == [issues EXCEPT ![wizard[w].number].touched = TRUE,
                                      ![wizard[w].number].copilot = TRUE]
       IN \/ issues' = assigned /\ UNCHANGED githubFaults /\ Told("requested")
          \/ Fault /\ issues' \in {issues, assigned} /\ Told("failed")
          \/ Told("blocked") /\ UNCHANGED <<issues, githubFaults>>
\* Faulty form: of an issue left alone too.
IsRecordedAlways(decision) == TRUE
IsRecorded(decision) == decision \in {"created", "updated"}
\* A failed insert is not noticed.
persistOnboardingWorkItem(w) ==
    /\ wizard[w].at = "persist" /\ UNCHANGED <<issues, ciKey, quiet>> /\ Advance(w)
    /\ LET item == [number |-> wizard[w].number, decision |-> wizard[w].decision,
                    copilot |-> wizard[w].copilot]
       IN \/ /\ UNCHANGED githubFaults
             /\ items' = IF IsRecorded(item.decision) THEN items \cup {item} ELSE items
          \/ Fault /\ UNCHANGED items

\* People comment on issues and close them, and open others of any title.
Touch(n) == ~issues[n].touched /\ issues' = [issues EXCEPT ![n].touched = TRUE]
Close(n) == issues[n].open /\ issues' = [issues EXCEPT ![n].open = FALSE, ![n].touched = TRUE]
Open ==
    /\ Len(issues) < MaxIssues
    /\ \E title \in {"ci", "other"}, pull \in BOOLEAN :
        issues' = Append(issues, [title |-> title, pull |-> pull, open |-> TRUE, touched |-> FALSE,
                                  copilot |-> FALSE, asOf |-> 0, blind |-> FALSE, byWizard |-> FALSE])
People ==
    /\ people < MaxPeople /\ people' = people + 1
    /\ (\E n \in Numbers : Touch(n) \/ Close(n)) \/ Open
    /\ UNCHANGED <<wizard, items, ciKey, inspected, githubFaults>>

Next ==
    \/ \E w \in Wizards :
        \/ \E form \in Forms : Start(w, form)
        \/ fetchOpenGithubIssues(w) \/ createGithubIssueRecord(w) \/ githubGetIssueDetail(w)
        \/ updateGithubIssueRecord(w) \/ assignIssueToCopilot(w) \/ persistOnboardingWorkItem(w)
    \/ People \/ \E repo \in Repos : Inspect(repo)
Spec == Init /\ [][Next]_vars

-----------------------------------------------------------------------------
(* Properties.                                                                *)

\* The wizard asks for a thing once: where it made an issue of a title although
\* an earlier one is open, the listing had failed, or the earlier one came after
\* it (two requests, or a person, in between), or as many newer ones as a listing
\* holds had come before it (onboarding_issues.go:152).  It never writes to a pull
\* request.
Overlooked(i, look) ==
    look.blind \/ i > look.asOf \/ look.asOf - i >= githubIssueDedupeCandidateMax
OneIssueEach ==
    /\ \A i, j \in Numbers :
        i < j /\ issues[j].byWizard /\ issues[i].open /\ ~issues[i].pull /\ issues[i].title = issues[j].title
            => Overlooked(i, issues[j])
    /\ \A i \in Numbers : issues[i].pull => ~issues[i].copilot
    /\ \A w \in Wizards : wizard[w].at \in {"update", "assign"} => ~issues[wizard[w].number].pull

\* The work items tell what happened at GitHub: each is of an issue the wizard
\* made or replaced, and says that Copilot was asked only if it
\* was; two say "created" of one issue never (onboarding_issues.go:128).
ItemsTellIssues ==
    /\ \A x \in items :
        /\ x.number \in Numbers /\ ~issues[x.number].pull
        /\ x.decision = "created" => issues[x.number].byWizard
        /\ x.decision \in {"created", "updated"}
        /\ x.copilot = "requested" => issues[x.number].copilot
        /\ x.decision = "updated" => issues[x.number].touched
    /\ \A x, y \in items : x.number = y.number /\ x.decision = "created" /\ y.decision = "created" => x = y

\* What an inspection found is there.  What it found missing without an error is
\* in no file whose content came: a file that has it was answered as an empty
\* one, or with the listing no workflow came (github_inspect.go:48, :62, :168).
InspectionIsTrue ==
    inspected # Idle =>
        LET found == inspected.found
            flows == Capped(inspected.repo.workflows)
            manifests == inspected.repo.manifests
            Has(files, k) == \E i \in DOMAIN files : files[i][k]
            Blank(files, how, k) == \A i \in DOMAIN files : files[i][k] => how[i] = "blank"
            NoFlows == inspected.listing = "blank"
        IN /\ found.ci => Has(flows, "ci")
           /\ found.otel => Has(flows, "otel") \/ Has(manifests, "otel")
           /\ ~found.failed /\ ~found.ci => NoFlows \/ Blank(flows, inspected.flows, "ci")
           /\ ~found.failed /\ ~found.otel => /\ NoFlows \/ Blank(flows, inspected.flows, "otel")
                                            /\ Blank(manifests, inspected.manifests, "otel")
===============================================================================
