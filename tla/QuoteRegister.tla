---------------------------- MODULE QuoteRegister ----------------------------
(***************************************************************************)
(* What the quotes of a task are to everything that compares them: a       *)
(* register in which each document is the next version of one quote, and   *)
(* in which every change is one revision of the task.                      *)
(*                                                                         *)
(* QuoteDrafts implements this specification, although a draft takes many  *)
(* requests, a parse job and a moved file to become a version, and readers *)
(* and late workers write to its row meanwhile.                            *)
(***************************************************************************)
EXTENDS Integers

CONSTANT Quotes \* the ids quotes can have

VARIABLES
  revision,  \* the revision of the task's inputs
  closed,    \* the task is abandoned
  versions,  \* the current version of each quote, 0 when it is not there
  active,    \* the quotes that are compared
  documents  \* [quote, version, file] for each version

register == <<revision, closed, versions, active, documents>>

Init == /\ revision = 1
        /\ closed = FALSE
        /\ versions = [q \in Quotes |-> 0]
        /\ active = {}
        /\ documents = {}

Advance == /\ ~closed
           /\ revision' = revision + 1

\* A document becomes the next version of its quote, which is new or compared
\* now.  Its file is of no other quote.
Submit(doc) ==
  /\ Advance
  /\ doc.quote \in Quotes
  /\ doc.quote \in active \/ versions[doc.quote] = 0
  /\ doc.version = versions[doc.quote] + 1
  /\ \A other \in documents : other.file = doc.file => other.quote = doc.quote
  /\ versions' = [versions EXCEPT ![doc.quote] = doc.version]
  /\ active' = active \cup {doc.quote}
  /\ documents' = documents \cup {doc}
  /\ UNCHANGED closed

Deactivate(q) == /\ Advance
                 /\ q \in active
                 /\ active' = active \ {q}
                 /\ UNCHANGED <<closed, versions, documents>>

Reactivate(q) == /\ Advance
                 /\ versions[q] > 0
                 /\ active' = active \cup {q}
                 /\ UNCHANGED <<closed, versions, documents>>

\* Other inputs change.
Revise == /\ Advance
          /\ UNCHANGED <<closed, versions, active, documents>>

Abandon == /\ Advance
           /\ closed' = TRUE
           /\ UNCHANGED <<versions, active, documents>>

Next == \/ \E doc \in documents' : Submit(doc)
        \/ \E q \in Quotes : Deactivate(q) \/ Reactivate(q)
        \/ Revise \/ Abandon

Spec == Init /\ [][Next]_register

\* What a comparison relies on: a quote and a version name one document, and no
\* file speaks for two quotes.
IsSound ==
  /\ \A doc \in documents : doc.version \in 1 .. versions[doc.quote]
  /\ \A doc, other \in documents :
       /\ doc.quote = other.quote /\ doc.version = other.version => doc = other
       /\ doc.file = other.file => doc.quote = other.quote
=============================================================================
