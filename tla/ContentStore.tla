---------------------------- MODULE ContentStore ----------------------------
(***************************************************************************)
(* What the working store promises its users: a content-addressed store    *)
(* whose content only grows, and whose names (build keys, reuse keys and   *)
(* object refs) are bound, one at a time, to content that is complete at   *)
(* that moment.  A name may be bound again; content is never taken away.   *)
(***************************************************************************)
CONSTANTS Contents,  \* identities of content
          Names,     \* everything that can name content
          NoContent  \* an unbound name

VARIABLES complete,  \* identities whose whole content is present
          binding    \* per name, the content it names

ContentInit ==
  /\ complete = {}
  /\ binding = [n \in Names |-> NoContent]

\* Content becomes complete, any number of identities at a time.
AddContent ==
  /\ UNCHANGED binding
  /\ complete \subseteq complete'

Bind(n, h) ==
  /\ h \in complete
  /\ binding' = [binding EXCEPT ![n] = h]
  /\ UNCHANGED complete

ContentNext == AddContent \/ (\E n \in Names, h \in Contents : Bind(n, h))

ContentSpec == ContentInit /\ [][ContentNext]_<<complete, binding>>
=============================================================================
