------------------------------- MODULE Accounts -------------------------------
(***************************************************************************)
(* Creating accounts: register and registerOrganizer, and validateGoogleUser *)
(* with the names it generates, of auth.service.ts over the users table.   *)
(* Names are told apart without regard to case, at registration and at     *)
(* login, but the table's constraint only knows exact names.  The people   *)
(* here all share one name: a name is what follows it, a number or nothing, *)
(* and whether it is written in capitals.                                  *)
(***************************************************************************)
EXTENDS Rows

CONSTANTS
  Emails,      (* the addresses that people register with                  *)
  LastSuffix,  (* names end in no number or one up to this: a bound        *)
  Clerks       (* handlers in flight at a time: a bound                    *)

ASSUME AccountsAssumption == LastSuffix \in Nat

VARIABLES
  account,     (* users: a row per address, which is unique                *)
  clerk,       (* what each handler will do next                           *)
  raced        (* handlers that looked a name up have ever overlapped      *)

accountsVars == <<account, clerk, raced>>

Names == [suffix : 0..LastSuffix, caps : BOOLEAN]

NameTaken(name) == \E e \in DOMAIN account : account[e].name = name

(* Mutant: mode 'insensitive' is forgotten. *)
FoundExactly(name) == NameTaken(name)

(* findFirst with mode 'insensitive' *)
FoundInsensitive(name) == \E e \in DOMAIN account : account[e].name.suffix = name.suffix

AccountsInit ==
  /\ account = NoRows
  /\ clerk = [c \in Clerks |-> Idle]
  /\ raced = FALSE

Does(c, state) == clerk' = [clerk EXCEPT ![c] = state]

(* A name was found free while another handler holds one it has found free. *)
FoundFree(c) ==
  raced' = (raced \/ \E d \in Clerks \ {c} : clerk[d].step \in {"create", "googleCreate"})
-------------------------------------------------------------------------------
(* register: the address, the name, the row (and the password's hash between) *)

Register(c, email, name) ==
  /\ clerk[c] = Idle
  /\ email \notin DOMAIN account
  /\ Does(c, [step |-> "name", email |-> email, name |-> name])
  /\ UNCHANGED <<account, raced>>

RegisterName(c) ==
  /\ clerk[c].step = "name"
  /\ IF FoundInsensitive(clerk[c].name)
     THEN Does(c, Idle) /\ UNCHANGED raced
     ELSE Does(c, [clerk[c] EXCEPT !.step = "create"]) /\ FoundFree(c)
  /\ UNCHANGED account

(* Address and name are unique in the table; otherwise create fails. *)
CreateAccount(c) ==
  /\ clerk[c].step \in {"create", "googleCreate"}
  /\ account' = IF clerk[c].email \in DOMAIN account \/ NameTaken(clerk[c].name) THEN account
                ELSE Put(account, clerk[c].email,
                         [name |-> clerk[c].name, google |-> clerk[c].step = "googleCreate"])
  /\ Does(c, Idle)
  /\ UNCHANGED raced
-------------------------------------------------------------------------------
(* validateGoogleUser: by Google's id, by the address, a new account *)

GoogleSignIn(c, email) ==
  /\ clerk[c] = Idle
  /\ IF email \in DOMAIN account
     THEN ~account[email].google /\ Does(c, [step |-> "link", email |-> email])
     ELSE Does(c, [step |-> "generate", email |-> email, name |-> [suffix |-> 0, caps |-> FALSE]])
  /\ UNCHANGED <<account, raced>>

GoogleLink(c) ==
  /\ clerk[c].step = "link"
  /\ account' = [account EXCEPT ![clerk[c].email].google = TRUE]
  /\ Does(c, Idle)
  /\ UNCHANGED raced

(* generateUniqueUsernameFromEmail: one more suffix for each name taken. *)
GenerateUsername(c) ==
  /\ clerk[c].step = "generate"
  /\ IF FoundInsensitive(clerk[c].name)
     THEN Does(c, [clerk[c] EXCEPT !.name.suffix = @ + 1]) /\ UNCHANGED raced
     ELSE Does(c, [clerk[c] EXCEPT !.step = "googleCreate"]) /\ FoundFree(c)
  /\ UNCHANGED account
-------------------------------------------------------------------------------
ClerkStep(c) == RegisterName(c) \/ CreateAccount(c) \/ GoogleLink(c) \/ GenerateUsername(c)

AccountsNext ==
  \E c \in Clerks :
    \/ \E e \in Emails : \/ \E n \in Names : Register(c, e, n)
                         \/ GoogleSignIn(c, e)
    \/ ClerkStep(c)

AccountsSpec == AccountsInit /\ [][AccountsNext]_accountsVars
-------------------------------------------------------------------------------
(* Properties *)

(* A generated name may be counted up beyond those that people enter. *)
AnyName == [suffix : Nat, caps : BOOLEAN]

(* Every variable has its type: the one type invariant of this module. *)
AccountsTypeOK ==
  /\ DOMAIN account \subseteq Emails
  /\ account \in [DOMAIN account -> [name : AnyName, google : BOOLEAN]]
  /\ clerk \in [Clerks -> {Idle} \cup [step : {"link"}, email : Emails]
                            \cup [step : {"name", "create", "generate", "googleCreate"},
                                  email : Emails, name : AnyName]]
  /\ raced \in BOOLEAN

(* No two accounts have names that differ in case only, by which login      *)
(* could not tell them apart, whether they register or come from Google,    *)
(* unless two handlers looked names up at the same time.                    *)
NamesTellApart ==
  ~raced => \A e, f \in DOMAIN account :
              account[e].name.suffix = account[f].name.suffix => e = f
===============================================================================
