------------------------------ MODULE Keyring ------------------------------
(* Looking up a password (credentials.py).  Each lookup starts a daemon      *)
(* thread that asks the keychain, and waits for its answer on a queue of its *)
(* own for at most KT; a thread that the keychain keeps is abandoned, and    *)
(* may answer when nobody listens any more.  What the keychain does not give *)
(* is looked for in credentials.yaml.  The wait blocks the calling thread,   *)
(* which is the one that runs the event loop.                                *)
EXTENDS Integers, Sequences

CONSTANTS
  Nodes,    \* the configured nodes
  Calls,    \* the sessions of one node in a tool call
  Stored,   \* accounts with a password in the keychain
  InFile,   \* accounts with a password in credentials.yaml
  KT        \* KEYRING_TIMEOUT_S

Accounts == [node : Nodes, kind : {"user", "sys"}]
Lookups  == [account : Accounts, call : Calls]

ASSUME KeyringAssumption ==
  /\ Stored \subseteq Accounts
  /\ InFile \subseteq Accounts
  /\ KT \in Nat

VARIABLES
  thread,   \* the keychain thread of each lookup
  queue,    \* the result queue of each lookup
  blocked,  \* the lookup that holds the event loop's thread, if any
  wait,     \* what is left of its timeout
  sent      \* the lookups that gave a password, and the account it belongs to

keyring == <<thread, queue, blocked, wait, sent>>

\* A password is known by its account; {} is no password.
Passwords == {{}} \cup {{a} : a \in Accounts}

KeyringTypeOK ==
  /\ thread \in [Lookups -> {"none", "asking", "ended"}]
  /\ queue \in [Lookups -> {<<>>} \cup {<<p>> : p \in Passwords}]
  /\ \A l, m \in blocked : l = m /\ l \in Lookups
  /\ wait \in 0 .. KT
  /\ sent \subseteq Lookups \X Accounts

KeyringInit ==
  /\ thread = [l \in Lookups |-> "none"]
  /\ queue = [l \in Lookups |-> <<>>]
  /\ blocked = {}
  /\ wait = 0
  /\ sent = {}

\* Variant: the lookups of one account share their queue.
QueueOfAccount(l) == CHOOSE m \in Lookups : m.account.node = l.account.node

\* result_q is made anew by every call.
QueueOf(l) == l

\* Variant: a lookup that times out is tried once more.
TwoTries == KT + KT

Patience == KT

StartLookup(l) ==
  /\ thread[l] = "none"
  /\ thread' = [thread EXCEPT ![l] = "asking"]
  /\ blocked' = {l}
  /\ wait' = Patience
  /\ UNCHANGED <<queue, sent>>

\* get_password returns the password of the account, or nothing, or raises;
\* put blocks the thread for ever when there is an answer nobody has taken.
KeychainAnswers(l) ==
  /\ thread[l] = "asking"
  /\ queue[QueueOf(l)] = <<>>
  /\ thread' = [thread EXCEPT ![l] = "ended"]
  /\ \E found \in {{}, {l.account} \cap Stored} :
       queue' = [queue EXCEPT ![QueueOf(l)] = <<found>>]
  /\ UNCHANGED <<blocked, wait, sent>>

Answered(l) == queue[QueueOf(l)] # <<>>

\* Variant: queue.get without a timeout.
NeverTimedOut(l) == FALSE

TimedOut(l) == ~Answered(l) /\ wait = 0

\* A miss, an error and a timeout are the same: the file is asked next.
Password(l) ==
  IF Answered(l) /\ Head(queue[QueueOf(l)]) # {}
  THEN Head(queue[QueueOf(l)])
  ELSE {l.account} \cap InFile

\* get_password ends: it returns the password, or raises LookupError.
EndLookup(l) ==
  /\ l \in blocked
  /\ Answered(l) \/ TimedOut(l)
  /\ queue' = [queue EXCEPT ![QueueOf(l)] = <<>>]
  /\ blocked' = {}
  /\ wait' = 0
  /\ sent' = sent \cup {<<l, a>> : a \in Password(l)}
  /\ thread' = thread

(***************************************************************************)
(* Properties                                                              *)
(***************************************************************************)
\* A late answer is never taken for that of another lookup: a password is sent
\* where its own account was asked for.  And an abandoned thread always finds
\* room for its answer, so none outlives the keychain's answer to it.
OwnPassword ==
  /\ \A s \in sent : s[2] = s[1].account
  /\ \A l \in Lookups : thread[l] = "asking" => queue[QueueOf(l)] = <<>>
=============================================================================
