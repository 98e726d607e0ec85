---------------------------- MODULE SkillCatalog ----------------------------
(***************************************************************************)
(* The skills of the workspaces of one worker (package skills): how they   *)
(* are installed from ClawHub by /skills install and by the command line,  *)
(* graduated, discovered, found eligible, listed in the prompt and read by *)
(* the tool skill_view.                                                    *)
(*                                                                         *)
(* Everything is files.  An installation awaits the hub twice; from then   *)
(* on it does not leave its thread, but other processes (a second worker,  *)
(* the command line, the curator of another worker) work on the same       *)
(* directories: each system call is a step.  The old directory goes before *)
(* the new one is made, and lock.json is read and written back.            *)
(*                                                                         *)
(* The provider of the prompt keeps the skills it has offered last, for    *)
(* whichever workspace that was, and skill_view looks there.               *)
(***************************************************************************)
EXTENDS Naturals, Sequences, FiniteSets, SequencesExt, FiniteSetsExt

CONSTANTS
    Slugs,        \* directory names are 1 .. Slugs, in their order
    Version, Sop, \* published versions; what a graduated SOP's file counts as
    Absent,       \* no file, no version, no directory
    Root,         \* skill directories
    Workspace,
    Sources,      \* [Workspace -> Seq(Root)]: later ones take precedence
    SkillsDir,    \* [Workspace -> Root]: where the command line and graduation write
    ClaudeDir,    \* [Workspace -> Root]: where /skills install writes
    Title,        \* [1..Slugs -> name in the front matter, a number as well]
    Needs,        \* [1..Slugs -> Traits]
    Hashed,       \* slugs whose latest version has a sha256hash
    MaxCandidates, MaxLoaded,
    Installer,    \* concurrent installations
    MaxInstalls, MaxEvents    \* bounds: installations, and faults or releases

Slug == 1 .. Slugs
File == {"md", "rest"}
\* Which of its requirements a skill has and the host meets.
Traits == [os : BOOLEAN, always : BOOLEAN, meets : BOOLEAN, hidden : BOOLEAN]

CatalogAssumption ==
    /\ Sources \in [Workspace -> Seq(Root)] /\ SkillsDir \in [Workspace -> Root]
    /\ ClaudeDir \in [Workspace -> Root] /\ Needs \in [Slug -> Traits]
    /\ Hashed \subseteq Slug /\ Absent \notin Version \cup {Sop}
    /\ {Slugs, MaxCandidates, MaxLoaded, MaxInstalls, MaxEvents} \subseteq Nat

VARIABLES
    dirs,      \* [Root \X Slug -> Absent, or the version of each file and of origin.json]
    lock,      \* [Root -> [Slug -> version in lock.json]]
    latest,    \* [Slug -> latest version on the hub]
    stage,     \* [Installer -> the next step of its installation]
    job,       \* [Installer -> root, slug, version, hash and what it read of lock.json]
    judged,    \* graduations that have checked for a skill and not written theirs
    offers,    \* [Workspace -> the catalog in the prompt of its run, {} without a run]
    cache,     \* DefaultSkillProvider._skills_cache
    resolved,  \* the workspace it belongs to
    torn,      \* history: directories an installation left unfinished, or that
               \* several writers were at
    raced,     \* history: roots whose lock.json several installations held
    installs, events

files == <<dirs, lock>>
installation == <<stage, job, installs>>
provider == <<offers, cache, resolved>>
history == <<torn, raced>>
vars == <<files, latest, installation, judged, provider, history, events>>

Empty == [f \in File \cup {"origin"} |-> Absent]
Idle == [root |-> Absent, slug |-> 1, version |-> Absent, hash |-> Absent, read |-> Absent]
Place(i) == <<job[i].root, job[i].slug>>

Init ==
    /\ dirs = [p \in Root \X Slug |-> Absent]
    /\ lock = [r \in Root |-> [s \in Slug |-> Absent]]
    /\ latest \in [Slug -> Version]
    /\ stage = [i \in Installer |-> "idle"] /\ job = [i \in Installer |-> Idle]
    /\ judged = {}
    /\ offers = [w \in Workspace |-> {}] /\ cache = {} /\ resolved = Absent
    /\ torn = {} /\ raced = {} /\ installs = 0 /\ events = 0

(***************************************************************************)
(* Discovery, eligibility, the catalog                                     *)
(***************************************************************************)
\* SKILL.md exists and can be parsed.
Readable(p) == dirs[p] # Absent /\ dirs[p].md # Absent

\* _scan_directory: the first directories in order of their names, and of
\* these the first whose SKILL.md can be read.
Scan(root) ==
    LET Upto(s, n) == SubSeq(s, 1, IF Len(s) < n THEN Len(s) ELSE n)
        there == SelectSeq([s \in Slug |-> s], LAMBDA s : dirs[<<root, s>>] # Absent)
        readable == SelectSeq(Upto(there, MaxCandidates),
                              LAMBDA s : Readable(<<root, s>>))
    IN  Upto(readable, MaxLoaded)

\* parse_skill_file: the name of the front matter; that of a graduated SOP is
\* the one of its directory.
Skill(root, s) ==
    LET body == dirs[<<root, s>>].md
    IN  [name |-> IF body = Sop THEN s ELSE Title[s], root |-> root, slug |-> s, body |-> body]

\* discover_skills: of skills of one name, the last of the last source.
Discover(w) ==
    LET found == FlattenSeq([i \in DOMAIN Sources[w] |->
                   LET slugs == Scan(Sources[w][i])
                   IN  [k \in DOMAIN slugs |-> Skill(Sources[w][i], slugs[k])]])
    IN  {found[i] : i \in {i \in DOMAIN found :
                             \A j \in DOMAIN found : found[j].name = found[i].name => j <= i}}

\* is_eligible and filter_eligible.
Eligible(s) == Needs[s].os /\ (Needs[s].always \/ Needs[s].meets)
Offer(w) == {k \in Discover(w) : Eligible(k.slug) /\ ~Needs[k.slug].hidden}

\* cmd_check of the command line lists what keeps a skill out of the prompt;
\* /skills list and /skills check do not look at `always' and `hidden'.
CliIssues(s) ==
    ~Needs[s].os \/ (~Needs[s].always /\ ~Needs[s].meets) \/ Needs[s].hidden
ChatIssues(s) == ~Needs[s].os \/ ~Needs[s].meets

\* build_skills_prompt: how many of the skills are listed, and how.  A skill
\* takes full[i] or compact[i] characters; the largest prefix that fits is
\* found by bisection.
Total(size, n) == FoldFunctionOnSet(+, 0, size, 1 .. n)

Bisect(fitting, n) ==
    LET step[lo \in 0 .. n + 1, hi \in 0 .. n, best \in 0 .. n] ==
          LET mid == (lo + hi + 1) \div 2
          IN  IF lo > hi THEN best
              ELSE IF mid = 0 THEN step[1, hi, best]
              ELSE IF mid \in fitting THEN step[mid + 1, hi, mid]
              ELSE step[lo, mid - 1, best]
    IN  step[0, n, 0]

Catalog(full, compact, limit, reserve, most) ==
    LET n == IF Len(full) > most THEN most ELSE Len(full)
        fitting == {k \in 0 .. n : Total(compact, k) + reserve <= limit}
    IN  IF Total(full, n) <= limit THEN [form |-> "full", skills |-> n]
        ELSE IF n \in fitting THEN [form |-> "compact", skills |-> n]
        ELSE [form |-> "compact", skills |-> Bisect(fitting, n)]

\* A run begins: resolve_skills_prompt scans, offers and remembers.
Resolve(w) ==
    /\ offers[w] = {} /\ Offer(w) # {}
    /\ offers' = [offers EXCEPT ![w] = Offer(w)]
    /\ cache' = Offer(w) /\ resolved' = w
    /\ UNCHANGED <<files, latest, installation, judged, history, events>>

RunEnds(w) ==
    /\ offers[w] # {}
    /\ offers' = [offers EXCEPT ![w] = {}]
    /\ UNCHANGED <<files, latest, installation, judged, cache, resolved, history, events>>

\* skill_view: what the tool answers in a run of any workspace.
View(name) == {k \in cache : k.name = name}

(***************************************************************************)
(* Installation                                                            *)
(***************************************************************************)
Go(i, next) == stage' = [stage EXCEPT ![i] = next]

\* Its result is told; `cause' says whether the directory is left unfinished.
End(i, unfinished) ==
    /\ Go(i, "idle") /\ job' = [job EXCEPT ![i] = Idle]
    /\ torn' = IF unfinished THEN torn \cup {Place(i)} ELSE torn

\* get_detail: the hash is the latest version's.
Detail(s) == [version |-> latest[s], hash |-> IF s \in Hashed THEN latest[s] ELSE Absent]

\* An installation of the version v, or of the latest if v is Absent.
Begin(i, root, s, v) ==
    /\ stage[i] = "idle" /\ installs < MaxInstalls
    /\ job' = [job EXCEPT ![i] = [root |-> root, slug |-> s,
                                  version |-> IF v = Absent THEN Detail(s).version ELSE v,
                                  hash |-> Detail(s).hash, read |-> Absent]]
    /\ Go(i, "download") /\ installs' = installs + 1
    /\ UNCHANGED <<files, latest, judged, provider, history, events>>

\* /skills install ... --confirm, which wants the session idle.
InstallByChat(i, w, s, v) == offers[w] = {} /\ Begin(i, ClaudeDir[w], s, v)

\* pyclaw-skill install
InstallByCli(i, w, s, v) == Begin(i, SkillsDir[w], s, v)

\* The archive has come and is compared with the hash.
Download(i) ==
    /\ stage[i] = "download"
    /\ IF job[i].hash \in {Absent, job[i].version}
       THEN Go(i, "remove") /\ UNCHANGED <<job, torn, events>>
       ELSE End(i, FALSE) /\ events' = events
    /\ UNCHANGED <<files, latest, installs, judged, provider, raced>>

\* The hub does not answer, or the archive is too large, leaves its directory
\* or has no SKILL.md.
UnpackFails(i) ==
    /\ stage[i] = "download" /\ events < MaxEvents
    /\ End(i, FALSE) /\ events' = events + 1
    /\ UNCHANGED <<files, latest, installs, judged, provider, raced>>

\* Another writer is at the same directory.
Crowded(i) ==
    \/ \E j \in Installer \ {i} : stage[j] \notin {"idle", "download"} /\ Place(j) = Place(i)
    \/ Place(i) \in judged
Tear(i) == torn' = IF Crowded(i) THEN torn \cup {Place(i)} ELSE torn

RemoveOld(i) ==
    /\ stage[i] = "remove"
    /\ dirs' = [dirs EXCEPT ![Place(i)] = Absent]
    /\ Go(i, "make") /\ Tear(i)
    /\ UNCHANGED <<lock, latest, job, installs, judged, provider, raced, events>>

\* copytree makes the directory, and does not take one that is there.
Make(i) ==
    /\ stage[i] = "make"
    /\ IF dirs[Place(i)] = Absent
       THEN /\ dirs' = [dirs EXCEPT ![Place(i)] = Empty]
            /\ Go(i, "copy") /\ Tear(i) /\ job' = job
       ELSE End(i, TRUE) /\ dirs' = dirs
    /\ UNCHANGED <<lock, latest, installs, judged, provider, raced, events>>

\* Files are copied in the order of the directory, which may be any; then
\* origin.json is written.
Copy(i, f) ==
    /\ stage[i] = "copy"
    /\ IF dirs[Place(i)] = Absent THEN End(i, TRUE) /\ dirs' = dirs
       ELSE /\ dirs' = [dirs EXCEPT ![Place(i)][f] = job[i].version]
            /\ Go(i, IF f = "md" THEN "copy rest" ELSE "copy md") /\ Tear(i) /\ job' = job
    /\ UNCHANGED <<lock, latest, installs, judged, provider, raced, events>>

CopySecond(i) ==
    /\ stage[i] \in {"copy md", "copy rest"}
    /\ LET f == IF stage[i] = "copy md" THEN "md" ELSE "rest"
       IN  IF dirs[Place(i)] = Absent THEN End(i, TRUE) /\ dirs' = dirs
           ELSE /\ dirs' = [dirs EXCEPT ![Place(i)][f] = job[i].version]
                /\ Go(i, "origin") /\ Tear(i) /\ job' = job
    /\ UNCHANGED <<lock, latest, installs, judged, provider, raced, events>>

WriteOrigin(i) ==
    /\ stage[i] = "origin"
    /\ dirs' = [dirs EXCEPT ![Place(i)] =
                  [(IF @ = Absent THEN Empty ELSE @) EXCEPT !.origin = job[i].version]]
    /\ Go(i, "read") /\ Tear(i)
    /\ UNCHANGED <<lock, latest, job, installs, judged, provider, raced, events>>

\* update_lock_json reads the file, and writes it with its entry.
ReadLock(i) ==
    /\ stage[i] = "read"
    /\ job' = [job EXCEPT ![i].read = lock[job[i].root]]
    /\ raced' = IF \E j \in Installer : stage[j] = "write" /\ job[j].root = job[i].root
                THEN raced \cup {job[i].root} ELSE raced
    /\ Go(i, "write") /\ Tear(i)
    /\ UNCHANGED <<files, latest, installs, judged, provider, events>>

\* Mutant: the version of the hub is noted, not the one installed.
WriteLockLatest(i) ==
    /\ stage[i] = "write"
    /\ lock' = [lock EXCEPT ![job[i].root] =
                  [job[i].read EXCEPT ![job[i].slug] = latest[job[i].slug]]]
    /\ End(i, Crowded(i))
    /\ UNCHANGED <<dirs, latest, installs, judged, provider, raced, events>>

WriteLock(i) ==
    /\ stage[i] = "write"
    /\ lock' = [lock EXCEPT ![job[i].root] = [job[i].read EXCEPT ![job[i].slug] = job[i].version]]
    /\ End(i, Crowded(i))
    /\ UNCHANGED <<dirs, latest, installs, judged, provider, raced, events>>

\* A full disk, or the death of the process.
Breaks(i) ==
    /\ stage[i] \notin {"idle", "download"} /\ events < MaxEvents
    /\ End(i, TRUE) /\ events' = events + 1
    /\ UNCHANGED <<files, latest, installs, judged, provider, raced>>

\* The hub gets a new version.
Publish(s, v) ==
    /\ latest[s] # v /\ events < MaxEvents
    /\ latest' = [latest EXCEPT ![s] = v] /\ events' = events + 1
    /\ UNCHANGED <<files, installation, judged, provider, history>>

(***************************************************************************)
(* Graduation of an SOP (skill_graduation.py)                              *)
(***************************************************************************)
\* No skill of its name is known, from any source.
Judge(w, s) ==
    LET p == <<SkillsDir[w], s>>
    IN  /\ p \notin judged /\ events < MaxEvents
        /\ ~Readable(p)
        /\ \A k \in Discover(w) : k.name # s
        /\ judged' = judged \cup {p} /\ events' = events + 1
        /\ torn' = IF \E i \in Installer : stage[i] \notin {"idle", "download"} /\ Place(i) = p
                   THEN torn \cup {p} ELSE torn
        /\ UNCHANGED <<files, latest, installation, provider, raced>>

WriteSkill(p) ==
    /\ p \in judged
    /\ dirs' = [dirs EXCEPT ![p] = [(IF @ = Absent THEN Empty ELSE @) EXCEPT !.md = Sop]]
    /\ judged' = judged \ {p}
    /\ UNCHANGED <<lock, latest, installation, provider, history, events>>

Next ==
    \/ \E i \in Installer :
         \/ \E w \in Workspace, s \in Slug, v \in Version \cup {Absent} :
              InstallByChat(i, w, s, v) \/ InstallByCli(i, w, s, v)
         \/ Download(i) \/ UnpackFails(i) \/ RemoveOld(i) \/ Make(i)
         \/ \E f \in File : Copy(i, f)
         \/ CopySecond(i) \/ WriteOrigin(i) \/ ReadLock(i) \/ WriteLock(i) \/ Breaks(i)
    \/ \E s \in Slug, v \in Version : Publish(s, v)
    \/ \E w \in Workspace : Resolve(w) \/ RunEnds(w)
    \/ \E w \in Workspace, s \in Slug : Judge(w, s)
    \/ \E p \in Root \X Slug : WriteSkill(p)

Spec == Init /\ [][Next]_vars

-----------------------------------------------------------------------------
(***************************************************************************)
(* Properties                                                              *)
(***************************************************************************)
TypeOK ==
    /\ \A p \in Root \X Slug :
         dirs[p] # Absent => dirs[p] \in [DOMAIN Empty -> Version \cup {Sop, Absent}]
    /\ lock \in [Root -> [Slug -> Version \cup {Absent}]] /\ latest \in [Slug -> Version]
    /\ stage \in [Installer -> {"idle", "download", "remove", "make", "copy", "copy md",
                                 "copy rest", "origin", "read", "write"}]
    /\ \A i \in Installer : stage[i] # "idle" => job[i].version \in Version
    /\ judged \cup torn \subseteq Root \X Slug /\ raced \subseteq Root
    /\ \A w \in Workspace : offers[w] = {} \/ resolved \in Workspace
    /\ installs \in 0 .. MaxInstalls /\ events \in 0 .. MaxEvents

\* lock.json tells the tree: a version it lists is the one every file of the
\* skill and its origin.json come from, whatever failed before or after, but
\* for directories that an installation left unfinished or that had several
\* writers at a time, and for lock files that two installations held
\* (install_skill, update_lock_json).
LockTellsTree ==
    \A r \in Root \ raced, s \in Slug :
        LET working == \E i \in Installer : stage[i] \notin {"idle", "download"}
                                           /\ Place(i) = <<r, s>>
        IN  lock[r][s] # Absent /\ <<r, s>> \notin torn /\ ~working
            => /\ dirs[<<r, s>>] # Absent
               /\ \A f \in DOMAIN Empty : dirs[<<r, s>>][f] = lock[r][s]

\* A graduated SOP never takes the place of a skill that somebody installed
\* (the checks of graduate_single_sop).
InstalledSurvive ==
    \A p \in (Root \X Slug) \ torn :
        dirs[p] # Absent /\ dirs[p].origin # Absent => dirs[p].md # Sop

\* What the command line says of a skill is what the prompt does with it, and
\* what /skills check says of one that is neither `always' nor hidden
\* (cmd_check, _eligibility_issues and is_eligible each have the rules).
ChecksAgree ==
    \A w \in Workspace : \A k \in Discover(w) :
        /\ CliIssues(k.slug) <=> k \notin Offer(w)
        /\ ~Needs[k.slug].always /\ ~Needs[k.slug].hidden
           => (ChatIssues(k.slug) <=> k \notin Offer(w))

\* The bisection lists as many skills as fit, whatever the descriptions and
\* paths take (build_skills_prompt).
CatalogIsLargest ==
    \A n \in 0 .. 3, limit \in 0 .. 7 :
        \A full \in [1 .. n -> 1 .. 3], compact \in [1 .. n -> 1 .. 2], most \in 1 .. 3 :
            LET c == Catalog(full, compact, limit, 1, most)
                best == Max({k \in 0 .. Min({n, most}) : k = 0 \/ Total(compact, k) + 1 <= limit})
            IN  c.form = "compact" => c.skills = best

\* Until a run of another workspace begins, skill_view returns exactly the
\* skill that the run's catalog lists under a name, whatever is installed
\* meanwhile and however often sources repeat a name (resolve_skills_prompt).
ViewFindsListed ==
    resolved \in Workspace =>
        \A k \in offers[resolved] : View(k.name) = {k}

\* Installed files, lock.json, the catalog in the prompt and what skill_view
\* and the commands say of it agree (install_skill, discover_skills,
\* is_eligible).
CatalogIsSound ==
    TypeOK /\ LockTellsTree /\ InstalledSurvive /\ ChecksAgree /\ ViewFindsListed
=============================================================================
