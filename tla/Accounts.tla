------------------------------ MODULE Accounts ------------------------------
(***************************************************************************)
(* The account of one email address: its row as services/auth.service.ts   *)
(* creates and verifies it, and the mails with verification links, from    *)
(* publishEmailTask over email.queue to consumers/email.consumer.ts.       *)
(*                                                                         *)
(* A request reads first and writes later, and publishes after that.       *)
(* Verification tokens are numbers in the order of their creation.  The    *)
(* consumer holds one message at a time (prefetch 1) and acknowledges it   *)
(* whether or not the mail went out.  Sessions, passwords, profiles and    *)
(* the mails about meetings and summaries are left out.                    *)
(***************************************************************************)
EXTENDS Integers, Sequences

CONSTANTS Errands,  \* requests that may be under way at a time
          MaxLinks  \* bound: verification tokens created

ASSUME AccountAssumption == MaxLinks \in Nat

VARIABLES
  account,    \* the User row: it exists, isVerified, verificationToken (0 for none)
  links,      \* the tokens created so far
  errand,     \* what each request has read and goes on to do
  mailQueue,  \* email.queue
  desk,       \* what the consumer holds, and whether it has mailed it
  mailbox,    \* the links that arrived
  lost        \* the links lost with a publish or a mail that failed

accountVars == <<account, links, errand, mailQueue, desk, mailbox, lost>>

Links == 1..MaxLinks

NoErrand == [op |-> "none", link |-> 0, found |-> FALSE]

EmptyDesk == [link |-> 0, mailed |-> FALSE]

AccountTypeOK ==
  /\ account \in [exists : BOOLEAN, verified : BOOLEAN, token : 0..MaxLinks]
  /\ links \in 0..MaxLinks
  /\ errand \in [Errands ->
       [op : {"none", "create", "store", "publish", "mark", "upsert"},
        link : 0..MaxLinks, found : BOOLEAN]]
  /\ mailQueue \in Seq(Links)
  /\ desk \in [link : 0..MaxLinks, mailed : BOOLEAN]
  /\ mailbox \subseteq Links /\ lost \subseteq Links

AccountInit ==
  /\ account = [exists |-> FALSE, verified |-> FALSE, token |-> 0]
  /\ links = 0
  /\ errand = [e \in Errands |-> NoErrand]
  /\ mailQueue = <<>> /\ desk = EmptyDesk
  /\ mailbox = {} /\ lost = {}

-----------------------------------------------------------------------------
(* The requests.                                                           *)

Undertake(e, op) ==
  /\ errand[e] = NoErrand
  /\ errand' = [errand EXCEPT ![e] = [op |-> op, link |-> 0, found |-> account.exists]]
  /\ UNCHANGED <<account, links, mailQueue, desk, mailbox, lost>>

Finish(e) == errand' = [errand EXCEPT ![e] = NoErrand]

\* An address that is taken is refused.
Signup(e) == ~account.exists /\ Undertake(e, "create")

ResendVerification(e) ==
  account.exists /\ ~account.verified /\ Undertake(e, "store")

\* Google or GitHub vouches for the address.
UpsertOAuthUser(e) == Undertake(e, "upsert")

\* The link of a mail is opened: the token is looked up.
VerifyEmail(e) ==
  account.exists /\ account.token \in mailbox /\ Undertake(e, "mark")

\* The new token is in the row when the request goes on to publish it.
WithNewToken(e) ==
  /\ links < MaxLinks
  /\ links' = links + 1
  /\ account' = [exists |-> TRUE, verified |-> account.verified, token |-> links + 1]
  /\ errand' = [errand EXCEPT ![e] = [op |-> "publish", link |-> links + 1, found |-> TRUE]]
  /\ UNCHANGED <<mailQueue, desk, mailbox, lost>>

\* The address is unique: of two sign-ups at a time one fails.
CreateUser(e) == errand[e].op = "create" /\ ~account.exists /\ WithNewToken(e)

\* The update does not look whether the address was verified since.
StoreToken(e) == errand[e].op = "store" /\ WithNewToken(e)

MarkVerified(e) ==
  /\ errand[e].op = "mark"
  /\ account' = [exists |-> TRUE, verified |-> TRUE, token |-> 0]
  /\ Finish(e)
  /\ UNCHANGED <<links, mailQueue, desk, mailbox, lost>>

\* A row that was found is updated and keeps its token; else one is created, which
\* fails if there is one by now.
WriteOAuthUser(e) ==
  /\ errand[e].op = "upsert" /\ errand[e].found = account.exists
  /\ account' = [exists |-> TRUE, verified |-> TRUE, token |-> account.token]
  /\ Finish(e)
  /\ UNCHANGED <<links, mailQueue, desk, mailbox, lost>>

\* Without a channel the failure is logged, and the broker may be gone before it has
\* the message: nobody waits for its confirm.
PublishEmailTask(e) ==
  /\ errand[e].op = "publish"
  /\ \/ mailQueue' = Append(mailQueue, errand[e].link) /\ UNCHANGED lost
     \/ lost' = lost \cup {errand[e].link} /\ UNCHANGED mailQueue
  /\ Finish(e)
  /\ UNCHANGED <<account, links, desk, mailbox>>

\* A write fails, or the process dies: what was to be published is not.
Abandon(e) ==
  /\ errand[e] # NoErrand
  /\ lost' = IF errand[e].op = "publish" THEN lost \cup {errand[e].link} ELSE lost
  /\ Finish(e)
  /\ UNCHANGED <<account, links, mailQueue, desk, mailbox>>

-----------------------------------------------------------------------------
(* The consumer.                                                           *)

Fetch ==
  /\ desk = EmptyDesk /\ mailQueue # <<>>
  /\ desk' = [link |-> Head(mailQueue), mailed |-> FALSE]
  /\ mailQueue' = Tail(mailQueue)
  /\ UNCHANGED <<account, links, errand, mailbox, lost>>

SendVerificationEmail ==
  /\ desk # EmptyDesk /\ ~desk.mailed
  /\ desk' = [link |-> desk.link, mailed |-> TRUE]
  /\ mailbox' = mailbox \cup {desk.link}
  /\ UNCHANGED <<account, links, errand, mailQueue, lost>>

\* A mail that cannot be sent is acknowledged like one that was.
AckMail ==
  /\ desk # EmptyDesk
  /\ lost' = IF desk.mailed THEN lost ELSE lost \cup {desk.link}
  /\ desk' = EmptyDesk
  /\ UNCHANGED <<account, links, errand, mailQueue, mailbox>>

\* Mutant of LoseConsumer: messages are acknowledged as they are delivered.
LoseConsumerAutoAck ==
  /\ desk # EmptyDesk
  /\ desk' = EmptyDesk
  /\ UNCHANGED <<account, links, errand, mailQueue, mailbox, lost>>

\* The process or its channel is gone before the acknowledgement: the message is
\* delivered again, and mailed again.
LoseConsumer ==
  /\ desk # EmptyDesk
  /\ mailQueue' = <<desk.link>> \o mailQueue
  /\ desk' = EmptyDesk
  /\ UNCHANGED <<account, links, errand, mailbox, lost>>

AccountNext ==
  \/ \E e \in Errands :
       \/ Signup(e) \/ ResendVerification(e) \/ UpsertOAuthUser(e) \/ VerifyEmail(e)
       \/ CreateUser(e) \/ StoreToken(e) \/ MarkVerified(e) \/ WriteOAuthUser(e)
       \/ PublishEmailTask(e) \/ Abandon(e)
  \/ Fetch \/ SendVerificationEmail \/ AckMail \/ LoseConsumer

AccountSpec == AccountInit /\ [][AccountNext]_accountVars

-----------------------------------------------------------------------------

\* A user who is not verified has the link that verifies him, or it is on its way, or it
\* was lost with a publish or a mail that failed: resends that overwrite each other's
\* tokens, sign-ups at a time and a consumer that dies leave nobody with dead links only.
LinkWorks ==
  account.exists /\ ~account.verified =>
    \/ account.token \in mailbox \cup lost \cup {desk.link}
    \/ \E i \in 1..Len(mailQueue) : mailQueue[i] = account.token
    \/ \E e \in Errands : errand[e].op = "publish" /\ errand[e].link = account.token

=============================================================================
