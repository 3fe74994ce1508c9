------------------------------ MODULE Accounts ------------------------------
(***************************************************************************)
(* Users, companies and tokens of backend-nest: UsersService, AuthService,   *)
(* JwtStrategy and the two guards.                                          *)
(*                                                                         *)
(* Users and companies are kept alike: create checks the unique column and   *)
(* inserts, update saves a copy read before, remove deletes the row read     *)
(* before.  save() of an entity whose row is gone INSERTs it again.  A        *)
(* user's password is not selected by default, so a user read and saved      *)
(* again carries none unless the PATCH has one.                              *)
(***************************************************************************)
EXTENDS Naturals, FiniteSets

CONSTANTS
    Users, Companies,  \* identifiers of rows (UUIDs)
    Marks,             \* values of the unique columns email and cnpj
    Patches,           \* bodies of PATCH: some of mark, role, company and password
    FirstAccounts,     \* tables users and companies at the start
    AdminCalls,        \* calls of the users controller; each runs once
    MaxAccountCalls    \* bound: calls executing at the same time

Ids == Users \cup Companies
Roles == {"admin", "empresa", "consumidor"}
\* company is a column of users only, mark is the e-mail or the CNPJ.
AccountRow == [mark : Marks, role : Roles, company : Companies \cup {"none"}]
AccountColumns == {"mark", "role", "company"}
NoRow == [mark |-> "none", role |-> "none", company |-> "none"]
Token == [user : Users, role : Roles]
NoToken == [user |-> "none", role |-> "none"]
NoPatch == [none |-> TRUE]
AdminOps == {"create", "update", "remove"}
AdminCall == [step : {"idle", "guard", "read", "insert", "save", "write", "delete", "done"},
              op : AdminOps \cup {"none", "register"}, by : Token \cup {NoToken},
              id : Ids \cup {"none"}, patch : Patches \cup {NoPatch},
              copy : AccountRow \cup {NoRow}, cols : SUBSET AccountColumns]
QuietCall == [step |-> "idle", op |-> "none", by |-> NoToken, id |-> "none",
              patch |-> NoPatch, copy |-> NoRow, cols |-> {}]

\* A partial CreateUserDto or CreateCompanyDto, as far as it is modelled.
UpdateDto(p) ==
    /\ DOMAIN p \subseteq {"mark", "role", "company", "password"}
    /\ "mark" \in DOMAIN p => p["mark"] \in Marks
    /\ "role" \in DOMAIN p => p["role"] \in Roles
    /\ "company" \in DOMAIN p => p["company"] \in Companies

ASSUME AccountConstants ==
    /\ "none" \notin Ids \cup Marks
    /\ Users \cap Companies = {} /\ Marks # {} /\ Patches # {}
    /\ FirstAccounts \in [Ids -> AccountRow \cup {NoRow}]
    /\ \A u \in Users : FirstAccounts[u].company # "none"
                          => FirstAccounts[FirstAccounts[u].company] # NoRow
    /\ \A p \in Patches : UpdateDto(p)
    /\ MaxAccountCalls \in Nat

VARIABLES
    accounts,   \* tables users and companies
    born,       \* identifiers generated so far
    tokens,     \* tokens that have not expired
    admin,      \* each call: step, operation, token, row, body, entity
    signedIn,   \* what the last login with the right password was answered
    rightful,   \* history: calls whose caller was an administrator since they arrived
    removed,    \* history: rows a call has deleted
    contested   \* history: rows deleted while a PATCH able to insert them again held a copy

accountVars == <<accounts, born, tokens, admin, signedIn, rightful, removed, contested>>

---------------------------------------------------------------------------
Registered(id) == accounts[id] # NoRow
SameTable(i, j) == (i \in Users) = (j \in Users)
MarkTaken(id, mark) ==
    \E j \in Ids \ {id} : Registered(j) /\ SameTable(id, j) /\ accounts[j].mark = mark
\* The unique indexes and the foreign key of users.companyId.
Storable(id, row) ==
    ~MarkTaken(id, row.mark) /\ (row.company = "none" \/ Registered(row.company))

IsAdmin(rows, u) == u # "none" /\ rows[u].role = "admin"
InProgress(c) == admin[c].step \notin {"idle", "done"}
CloseCall(c) == admin' = [admin EXCEPT ![c] = [QuietCall EXCEPT !.step = "done"]]
Step(c, step) == admin' = [admin EXCEPT ![c].step = step]

\* Rows change; calls that are still before the guard note a caller who is an
\* administrator now.
SetAccounts(rows) ==
    /\ accounts' = rows
    /\ rightful' = rightful \cup
         {c \in AdminCalls : admin[c].step = "guard" /\ IsAdmin(rows, admin[c].by.user)}

AccountInit ==
    /\ accounts = FirstAccounts
    /\ born = {i \in Ids : Registered(i)}
    /\ tokens = {[user |-> u, role |-> accounts[u].role] : u \in Users \cap born}
    /\ admin = [c \in AdminCalls |-> QuietCall]
    /\ signedIn = "never"
    /\ rightful = {} /\ removed = {} /\ contested = {}

\* A call arrives with a token that verifies.
Arrive(c) ==
    \E op \in AdminOps, t \in tokens, id \in Ids, p \in Patches :
       /\ admin[c].step = "idle"
       /\ Cardinality({d \in AdminCalls : InProgress(d)}) < MaxAccountCalls
       /\ (op = "create") = (id \notin born)
       /\ op # "update" => p = CHOOSE q \in Patches : TRUE
       /\ admin' = [admin EXCEPT ![c] =
                      [QuietCall EXCEPT !.step = "guard", !.op = op, !.by = t, !.id = id, !.patch = p]]
       /\ rightful' = IF IsAdmin(accounts, t.user) THEN rightful \cup {c} ELSE rightful
       /\ UNCHANGED <<accounts, born, tokens, signedIn, removed, contested>>

\* Mutant of Allowed: RolesGuard compares the role in the token.
AllowedByToken(t) == Registered(t.user) /\ t.role = "admin"

\* JwtStrategy.validate reads the user's row, RolesGuard compares its role.
Allowed(t) == Registered(t.user) /\ accounts[t.user].role = "admin"

Guard(c) ==
    /\ admin[c].step = "guard"
    /\ IF Allowed(admin[c].by) THEN Step(c, "read") ELSE CloseCall(c)
    /\ UNCHANGED <<accounts, born, tokens, signedIn, rightful, removed, contested>>

\* create: SELECT by the unique column; register does the same for anybody.
CheckMark(c) ==
    \E mark \in Marks, role \in Roles, company \in Companies \cup {"none"} :
       /\ admin[c].step = "read" /\ admin[c].op = "create"
       /\ admin[c].id \in Companies => role = "consumidor" /\ company = "none"
       /\ IF admin[c].id \in born \/ MarkTaken(admin[c].id, mark)
            THEN CloseCall(c) /\ UNCHANGED born
            ELSE /\ born' = born \cup {admin[c].id}
                 /\ admin' = [admin EXCEPT ![c].step = "insert",
                       ![c].copy = [mark |-> mark, role |-> role, company |-> company]]
       /\ UNCHANGED <<accounts, tokens, signedIn, rightful, removed, contested>>

Register(c) ==
    \E u \in Users \ born, mark \in Marks, role \in Roles, company \in Companies \cup {"none"} :
       /\ admin[c].step = "idle"
       /\ Cardinality({d \in AdminCalls : InProgress(d)}) < MaxAccountCalls
       /\ ~MarkTaken(u, mark)
       /\ born' = born \cup {u}
       /\ admin' = [admin EXCEPT ![c] = [QuietCall EXCEPT !.step = "insert", !.op = "register",
                      !.id = u, !.copy = [mark |-> mark, role |-> role, company |-> company]]]
       /\ UNCHANGED <<accounts, tokens, signedIn, rightful, removed, contested>>

\* Mutant of Insertable: the password comes with every SELECT of a user.
InsertableAlways(c) == Storable(admin[c].id, admin[c].copy)

\* A user needs a password, which a copy made by findOne does not hold.
Insertable(c) ==
    /\ Storable(admin[c].id, admin[c].copy)
    /\ admin[c].op = "update" /\ admin[c].id \in Users => "password" \in DOMAIN admin[c].patch

\* INSERT of a new row, or of a row found gone by save(); register signs tokens.
InsertRow(c) ==
    LET id == admin[c].id IN
    /\ admin[c].step = "insert"
    /\ IF ~Registered(id) /\ Insertable(c)
         THEN /\ SetAccounts([accounts EXCEPT ![id] = admin[c].copy])
              /\ tokens' = IF admin[c].op = "register"
                             THEN tokens \cup {[user |-> id, role |-> admin[c].copy.role]}
                             ELSE tokens
         ELSE UNCHANGED <<accounts, rightful, tokens>>
    /\ CloseCall(c)
    /\ UNCHANGED <<born, signedIn, removed, contested>>

\* findUserById or findCompanyById, then Object.assign.  A company the user has is
\* loaded with the row and wins over the companyId assigned beside it.
ReadAccount(c) ==
    LET id == admin[c].id  p == admin[c].patch IN
    /\ admin[c].step = "read" /\ admin[c].op \in {"update", "remove"}
    /\ IF ~Registered(id) THEN CloseCall(c)
       ELSE admin' = [admin EXCEPT
              ![c].step = IF admin[c].op = "update" THEN "save" ELSE "delete",
              ![c].copy = [accounts[id] EXCEPT
                 !.mark = IF "mark" \in DOMAIN p THEN p["mark"] ELSE @,
                 !.role = IF "role" \in DOMAIN p /\ id \in Users THEN p["role"] ELSE @,
                 !.company = IF "company" \in DOMAIN p /\ id \in Users /\ @ = "none"
                               THEN p["company"] ELSE @]]
    /\ UNCHANGED <<accounts, born, tokens, signedIn, rightful, removed, contested>>

\* save(): SELECT; a row that is gone will be inserted, an equal one left alone.
CompareAccount(c) ==
    LET id == admin[c].id IN
    /\ admin[c].step = "save"
    /\ IF ~Registered(id) THEN Step(c, "insert")
       ELSE IF accounts[id] = admin[c].copy THEN CloseCall(c)
       ELSE admin' = [admin EXCEPT ![c].step = "write", ![c].cols =
                        {k \in AccountColumns : accounts[id][k] # admin[c].copy[k]}]
    /\ UNCHANGED <<accounts, born, tokens, signedIn, rightful, removed, contested>>

\* save(): the UPDATE of the columns that differed, which matches no row when
\* the row is gone by now.
WriteAccount(c) ==
    LET id == admin[c].id
        old == accounts[id]
        row == [mark |-> IF "mark" \in admin[c].cols THEN admin[c].copy.mark ELSE old.mark,
                role |-> IF "role" \in admin[c].cols THEN admin[c].copy.role ELSE old.role,
                company |-> IF "company" \in admin[c].cols THEN admin[c].copy.company
                                                           ELSE old.company] IN
    /\ admin[c].step = "write"
    /\ IF Registered(id) /\ Storable(id, row)
         THEN SetAccounts([accounts EXCEPT ![id] = row])
         ELSE UNCHANGED <<accounts, rightful>>
    /\ CloseCall(c)
    /\ UNCHANGED <<born, tokens, signedIn, removed, contested>>

\* Mutant of Unlinked: the foreign key is left as it is.
UnlinkedNot(rows, id) == rows

\* ON DELETE SET NULL.
Unlinked(rows, id) ==
    [j \in Ids |-> [rows[j] EXCEPT !.company = IF @ = id THEN "none" ELSE @]]

Revives(c, id) ==
    /\ admin[c].id = id /\ admin[c].op = "update" /\ admin[c].step \in {"save", "insert"}
    /\ id \in Users => "password" \in DOMAIN admin[c].patch

DeleteAccount(c) ==
    LET id == admin[c].id IN
    /\ admin[c].step = "delete"
    /\ SetAccounts(Unlinked([accounts EXCEPT ![id] = NoRow], id))
    /\ removed' = removed \cup {id}
    /\ contested' = IF \E d \in AdminCalls : Revives(d, id) THEN contested \cup {id} ELSE contested
    /\ CloseCall(c)
    /\ UNCHANGED <<born, tokens, signedIn>>

LoadedColumns == {"id", "name", "email", "role", "phone", "isActive", "companyId"}

\* login with the password the user registered: bcrypt.compare throws when the
\* entity has no hash, which login answers with 500.
Login(u) ==
    /\ Registered(u)
    /\ signedIn' = IF "password" \in LoadedColumns THEN "tokens" ELSE "error"
    /\ tokens' = IF signedIn' = "tokens"
                   THEN tokens \cup {[user |-> u, role |-> accounts[u].role]} ELSE tokens
    /\ UNCHANGED <<accounts, born, admin, rightful, removed, contested>>

\* refresh signs what the row says now.
Refresh(t) ==
    /\ t \in tokens /\ Registered(t.user)
    /\ tokens' = tokens \cup {[user |-> t.user, role |-> accounts[t.user].role]}
    /\ UNCHANGED <<accounts, born, admin, signedIn, rightful, removed, contested>>

AccountStep(c) ==
    \/ Arrive(c) \/ Register(c) \/ Guard(c) \/ CheckMark(c) \/ InsertRow(c)
    \/ ReadAccount(c) \/ CompareAccount(c) \/ WriteAccount(c) \/ DeleteAccount(c)

AccountNext ==
    \/ \E c \in AdminCalls : AccountStep(c)
    \/ \E u \in Users : Login(u)
    \/ \E t \in tokens : Refresh(t)

AccountSpec == AccountInit /\ [][AccountNext]_accountVars

---------------------------------------------------------------------------
(* Types and the control points of the calls. *)
AccountTypeOK ==
    /\ accounts \in [Ids -> AccountRow \cup {NoRow}]
    /\ born \subseteq Ids /\ removed \subseteq Ids /\ contested \subseteq Ids
    /\ tokens \subseteq Token
    /\ signedIn \in {"never", "error", "tokens"}
    /\ rightful \subseteq AdminCalls
    /\ admin \in [AdminCalls -> AdminCall]

(* A call gets past the guards only when its caller has been an administrator *)
(* at some moment since the call arrived: a token issued before a demotion,   *)
(* before the user was removed or before both carries no power of its own.    *)
PowerIsCurrent ==
    \A c \in AdminCalls :
       admin[c].op \in AdminOps /\ admin[c].step # "guard" => c \in rightful

(* A removed user or company stays removed, unless a PATCH held a copy of it  *)
(* when it was deleted and could insert it again; for a user that takes a     *)
(* PATCH with a new password.                                               *)
RemovedStaysRemoved ==
    \A id \in removed : Registered(id) => id \in contested

(* No user refers to a company that is gone, whatever was read before the     *)
(* company was deleted and is saved afterwards.                             *)
CompanyReferences ==
    \A u \in Users : accounts[u].company # "none" => Registered(accounts[u].company)

(* "Autenticar e obter JWT": a login with the right password is answered with  *)
(* tokens.  It never is: the row login reads does not hold the hash.           *)
LoginWorks == signedIn # "error"
===========================================================================
