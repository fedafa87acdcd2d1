------------------------------ MODULE MCServices ------------------------------
(* Services for TLC: the database service, the package manager, the windows, the *)
(* chat and the remote shells, each of which is a system of its own here.  The   *)
(* variable `part` says which one moves; the others stay as they started.        *)
EXTENDS Database, Packages, Windows, Chat, RemoteShell, TLC

CONSTANTS a, b, a1, a2, b1, s1, s2, w, u, p, x, m,
          Part \* which components a run is about

VARIABLE part

MCCaller == a1 :> a @@ a2 :> a @@ b1 :> b

(* Bound: one window changes, and less often if there is another one. *)
FewChanges ==
    \A v \in Window \ {w} : ops'[v] = 0 /\ (app'[v] # "new" => ops'[w] < MaxOps)

(* Users, addresses and nicknames of the chat are interchangeable: whichever is *)
(* first to join is p, at x, as m.                                              *)
FirstJoin ==
    order = << >> /\ order' # << >> => order' = <<p>> /\ bound[p] = x /\ users'[p].nick = m

(* Bound: one address at a time is used twice, and somebody stays an admin. *)
FewReused == reused' # Address /\ (order' # << >> => \E v \in DOMAIN users' : users'[v].admin)

MCInit ==
    /\ part \in Part
    /\ DbInit /\ PkgInit /\ WinInit /\ ChatInit /\ ShellInit
    /\ part # "shells" => daemon = "tsshd"
    /\ part # "packages" => Installed = Nothing

MCNext ==
    /\ IF part = "database" THEN DbNext /\ DaemonsFollow ELSE UNCHANGED dbVars
    /\ IF part = "packages" THEN PkgNext ELSE UNCHANGED pkgVars
    /\ IF part = "windows" THEN WinNext /\ FewChanges ELSE UNCHANGED winVars
    /\ IF part = "chat" THEN ChatNext /\ FirstJoin /\ FewReused ELSE UNCHANGED chatVars
    /\ IF part = "shells" THEN ShellNext ELSE UNCHANGED shellVars
    /\ UNCHANGED part

MCSpec == MCInit /\ [][MCNext]_<<part, dbVars, pkgVars, winVars, chatVars, shellVars>>

ServicesTypeOK ==
    CASE part = "database" -> DbTypeOK
      [] part = "packages" -> PkgTypeOK
      [] part = "windows"  -> WinTypeOK
      [] part = "chat"     -> ChatTypeOK
      [] part = "shells"   -> ShellTypeOK
=============================================================================
