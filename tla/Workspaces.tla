----------------------------- MODULE Workspaces -----------------------------
(***************************************************************************)
(* WorkspaceService and RepositoryService: the workspaces of a tenant and  *)
(* the GitHub repositories linked to them.  Each call is a READ COMMITTED  *)
(* transaction.  A PATCH loads a row and sends the columns it changed;     *)
(* link() looks for an active link, waits for GitHub and inserts;          *)
(* unlink() updates its row, and keeps it locked while it waits for GitHub *)
(* to revoke the installation.  Sessions that wait for a row are in other  *)
(* processes than the one that holds it.                                   *)
(***************************************************************************)
EXTENDS Integers, Sequences, FiniteSets

CONSTANTS
  WorkspaceIds, WorkspaceNames,
  NamesElsewhere,      \* names of the tenant's other workspaces
  RepositoryNames,     \* full names at GitHub; they stand for their URLs too
  Installation,        \* the GitHub App installation that gives access to each
  Tenants,             \* transactions that may be open at the same time
  MaxLinks,            \* bound: links made
  NoWorkspace, Nothing \* no row; a NULL, or nothing to do

ASSUME WorkspaceAssumption ==
  /\ NamesElsewhere \subseteq WorkspaceNames /\ MaxLinks \in Nat /\ Nothing \notin RepositoryNames

VARIABLES
  workspaces,          \* rows by id
  repositories,        \* the links made: [workspace, name, active], and how many
                       \* there were when it was looked for an active one
  revoked,             \* installations GitHub has revoked
  call, mine, held,    \* an open transaction: its operation and arguments, the
                       \* workspace row or link it loaded, the link it has locked
  botched              \* history: links whose unlink was rolled back after the revocation

workspaceVars == <<workspaces, repositories, revoked, call, mine, held, botched>>

WorkspaceRow == [name : WorkspaceNames, repo_url : RepositoryNames \cup {Nothing}, archived : BOOLEAN]
Ellipsis  == "..."     \* what an update holds of a URL that was left out
NoCall    == [op |-> "none", workspace |-> Nothing, arg |-> Nothing, step |-> "none",
              looked |-> 0]
Links     == DOMAIN repositories
LinksOn(w) == {l \in Links : repositories[l].workspace = w /\ repositories[l].active}

WorkspaceInit ==
  /\ workspaces = [w \in WorkspaceIds |-> NoWorkspace]
  /\ repositories = <<>> /\ revoked = {} /\ botched = {}
  /\ call  = [s \in Tenants |-> NoCall]
  /\ mine  = [s \in Tenants |-> Nothing]
  /\ held  = [s \in Tenants |-> 0]

-----------------------------------------------------------------------------
At(s, op, step) == call[s].op = op /\ call[s].step = step
Reaches(s, step) == call' = [call EXCEPT ![s].step = step]

(* A call that loads something first: a workspace or an active link.       *)
Receive(s, op, w, arg, loaded) ==
  /\ call[s] = NoCall
  /\ call' = [call EXCEPT ![s] = [op |-> op, workspace |-> w, arg |-> arg, step |-> "loaded",
                                  looked |-> IF op = "link" THEN Len(repositories) ELSE 0]]
  /\ mine' = [mine EXCEPT ![s] = loaded]
  /\ UNCHANGED <<workspaces, repositories, revoked, held, botched>>

(* The end of the transaction; its changes are committed, or there are none: *)
(* an answer of 4xx or 5xx rolls it back.                                    *)
Answer(s) ==
  /\ call' = [call EXCEPT ![s] = NoCall]
  /\ mine' = [mine EXCEPT ![s] = Nothing]
  /\ held' = [held EXCEPT ![s] = 0]
Refuse(s) == Answer(s) /\ UNCHANGED <<workspaces, repositories, revoked, botched>>

Exists(w) == workspaces[w] # NoWorkspace
Loaded(w) == [c \in {"name", "repo_url"} |-> workspaces[w][c]]
Taken(w, name) == \/ name \in NamesElsewhere
                  \/ \E v \in WorkspaceIds \ {w} : Exists(v) /\ workspaces[v].name = name

(* A name that is taken is refused by the unique index. *)
create(w, name) ==
  /\ ~Exists(w) /\ ~Taken(w, name)
  /\ workspaces' = [workspaces EXCEPT ![w] =
       [name |-> name, repo_url |-> Nothing, archived |-> FALSE]]
  /\ UNCHANGED <<repositories, revoked, call, mine, held, botched>>

archive(w) ==
  /\ Exists(w) /\ ~workspaces[w].archived
  /\ workspaces' = [workspaces EXCEPT ![w].archived = TRUE]
  /\ UNCHANGED <<repositories, revoked, call, mine, held, botched>>

(* PATCH: the columns that differ from those loaded.  A URL that is left   *)
(* out is Ellipsis, which is no _Sentinel and differs from every URL.      *)
Written(s) ==
  [c \in {k \in DOMAIN mine[s] : call[s].arg[k] # mine[s][k]} |-> call[s].arg[c]]

(* The flush fails on a value no column takes, and on a name that is taken *)
(* (answered 409, if what the message reads of the row can still be seen   *)
(* after the rollback, which ends the tenant's setting as well).           *)
update(s) ==
  LET w == call[s].workspace
      new == Written(s)
  IN /\ At(s, "update", "loaded")
     /\ IF \/ "repo_url" \in DOMAIN new /\ new.repo_url = Ellipsis
           \/ "name" \in DOMAIN new /\ Taken(w, new.name)
          THEN Refuse(s)
          ELSE /\ workspaces' = [workspaces EXCEPT ![w] =
                    [c \in DOMAIN @ |-> IF c \in DOMAIN new THEN new[c] ELSE @[c]]]
               /\ Answer(s) /\ UNCHANGED <<repositories, revoked, botched>>

-----------------------------------------------------------------------------
(* link(): no active link, ...  (A definition whose name ends in _Mutant   *)
(* is the next one with a slip in it and no part of the model.)            *)
get_active_Mutant(w) == {}
get_active(w) == LinksOn(w)

link(s, w, name) ==
  Exists(w) /\ get_active(w) = {} /\ Receive(s, "link", w, name, Loaded(w))

(* ... GitHub says what it knows of the repository, or fails, ... *)
GetRepository(s) ==
  /\ At(s, "link", "loaded")
  /\ \/ /\ Installation[call[s].arg] \notin revoked
        /\ Reaches(s, "fetched")
        /\ UNCHANGED <<workspaces, repositories, revoked, mine, held, botched>>
     \/ Refuse(s)

(* ... and the link is inserted, unless the same one got there first, with *)
(* its URL on the workspace, unless the URL that was loaded was the same.  *)
CommitLinked(s) ==
  LET w == call[s].workspace
      name == call[s].arg
  IN /\ At(s, "link", "fetched")
     /\ IF \E l \in LinksOn(w) : repositories[l].name = name THEN Refuse(s)
        ELSE /\ Len(repositories) < MaxLinks
             /\ repositories' = Append(repositories,
                  [workspace |-> w, name |-> name, active |-> TRUE, looked |-> call[s].looked])
             /\ workspaces' = [workspaces EXCEPT ![w].repo_url =
                  IF name = mine[s].repo_url THEN @ ELSE name]
             /\ Answer(s) /\ UNCHANGED <<revoked, botched>>

(* unlink(): the active link; set its unlinked_at, which locks the row, ... *)
unlink(s, w) == \E l \in get_active(w) : Receive(s, "unlink", w, Nothing, l)

FlushUnlink(s) ==
  /\ At(s, "unlink", "loaded")
  /\ \A t \in Tenants : held[t] # mine[s]
  /\ held' = [held EXCEPT ![s] = mine[s]]
  /\ Reaches(s, "flushed")
  /\ UNCHANGED <<workspaces, repositories, revoked, mine, botched>>

(* ... have GitHub revoke the installation, which may fail, ... *)
Revoke(s) ==
  /\ At(s, "unlink", "flushed")
  /\ revoked' \in {revoked, revoked \cup {Installation[repositories[mine[s]].name]}}
  /\ Reaches(s, "revoked")
  /\ UNCHANGED <<workspaces, repositories, mine, held, botched>>

(* ... and commit. *)
Unlinked_Mutant(l) == repositories[l]
Unlinked(l) == [repositories[l] EXCEPT !.active = FALSE]

CommitUnlinked(s) ==
  /\ At(s, "unlink", "revoked")
  /\ repositories' = [repositories EXCEPT ![mine[s]] = Unlinked(mine[s])]
  /\ Answer(s) /\ UNCHANGED <<workspaces, revoked, botched>>

(* The connection or the process is lost. *)
Lose(s) ==
  /\ call[s] # NoCall
  /\ botched' = IF call[s].step = "revoked" THEN botched \cup {mine[s]} ELSE botched
  /\ Answer(s) /\ UNCHANGED <<workspaces, repositories, revoked>>

WorkspaceNext ==
  \/ \E w \in WorkspaceIds :
       \/ \E n \in WorkspaceNames : create(w, n)
       \/ archive(w)
       \/ \E s \in Tenants :
            \/ \E n \in WorkspaceNames, u \in {Nothing, Ellipsis} :
                 Exists(w) /\ Receive(s, "update", w, [name |-> n, repo_url |-> u], Loaded(w))
            \/ \E r \in RepositoryNames : link(s, w, r)
            \/ unlink(s, w)
  \/ \E s \in Tenants :
       \/ update(s) \/ GetRepository(s) \/ CommitLinked(s)
       \/ FlushUnlink(s) \/ Revoke(s) \/ CommitUnlinked(s)
       \/ Lose(s)

WorkspaceSpec == WorkspaceInit /\ [][WorkspaceNext]_workspaceVars

-----------------------------------------------------------------------------
WorkspaceTypeOK ==
  /\ workspaces \in [WorkspaceIds -> WorkspaceRow \cup {NoWorkspace}]
  /\ \A l \in Links : /\ repositories[l].name \in RepositoryNames
                      /\ repositories[l].looked \in 0..(l - 1)
  /\ botched \subseteq Links
  /\ \A s \in Tenants : held[s] \in Links \cup {0}

(* "workspace already has an active repository linkage" (409): a workspace *)
(* has two only if the second link was looked for before the first was     *)
(* there, for no index stands behind the check; and never two to the same  *)
(* repository.                                                             *)
LinksApart ==
  \A l, k \in Links :
    /\ l < k /\ repositories[l].active /\ repositories[k].active
    /\ repositories[l].workspace = repositories[k].workspace
    => /\ repositories[k].looked < l
       /\ repositories[l].name # repositories[k].name

(* A link whose installation GitHub has revoked is not left active by its  *)
(* own unlink, unless that was lost after the revocation: it is another    *)
(* link, through the same installation, that was unlinked (test_unlink_    *)
(* marks_unlinked_and_calls_revoke).                                       *)
RevokedByUnlink ==
  \A l \in Links :
    LET through == {k \in Links : Installation[repositories[k].name] = Installation[repositories[l].name]}
        ending  == {mine[s] : s \in {t \in Tenants : At(t, "unlink", "revoked")}}
    IN  /\ repositories[l].active /\ Installation[repositories[l].name] \in revoked
        => (through \cap (botched \cup ending)) \cup {k \in through : ~repositories[k].active} # {}

(* Links of a repository stay apart, and a revocation has its unlink.      *)
LinksKept == LinksApart /\ RevokedByUnlink

=============================================================================
