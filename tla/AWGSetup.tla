-------------------------------- MODULE AWGSetup --------------------------------
(***************************************************************************)
(* A program that makes a configuration with GenerateAmneziaParams and     *)
(* passes it to ConfigureDevice: Generate and AWGConfigure together.  In   *)
(* the other behaviours all callers bring configurations of their own, as  *)
(* in AWGConfigure.                                                        *)
(***************************************************************************)
EXTENDS AWGConfigure, Draws

CONSTANT Generators  \* the callers that may do this

ASSUME GeneratorsAssumption == Generators \subseteq Callers /\ Nil \notin Callers

VARIABLES
  generator,  \* the caller that generates its configuration, or Nil
  drawing,    \* how far it has come
  n, offset, ranges, H, I

genVars == <<generator, drawing, n, offset, ranges, H, I>>
allVars == <<vars, genVars>>

G == INSTANCE Generate WITH pc <- drawing

\* wgtypes.Config{}
NewConfig ==
  [n |-> [f \in Numbers |-> Nil], mark |-> Nil, H |-> [i \in Headers |-> Nil],
   I |-> [i \in 1 .. 5 |-> Nil], peers |-> <<>>]

\* The fields that GenerateAmneziaParams has set in it.
Generated == [NewConfig EXCEPT !.n = n, !.H = H, !.I = I]

SetupInit ==
  /\ G!Init
  /\ Init
  /\ \/ generator = Nil
     \/ generator \in Generators /\ cfg = [c \in Callers |-> NewConfig]

\* GenerateAmneziaParams; the others have nothing to configure.
Generates ==
  /\ generator # Nil
  /\ G!Next
  /\ cfg' = IF drawing' = "done" THEN [cfg EXCEPT ![generator] = Generated'] ELSE cfg
  /\ UNCHANGED <<device, pc, result, unread, raced, generator>>

Configures ==
  /\ \E c \in Callers : (generator = Nil \/ (c = generator /\ drawing = "done"))
                       /\ ConfigureDevice(c)
  /\ UNCHANGED genVars

SetupNext == Generates \/ Configures

SetupSpec == SetupInit /\ [][SetupNext]_allVars

-----------------------------------------------------------------------------
(* Properties.                                                             *)

\* What GenerateAmneziaParams makes, whatever it draws and however it
\* shuffles, ConfigureDevice accepts, and so does the kernel whatever the
\* device held before: the device then has exactly what was generated.
GeneratedIsApplied ==
  (generator # Nil /\ drawing = "done" /\ result[generator] # "none") =>
    IF device.isAmnezia
    THEN /\ result[generator] = "ok"
         /\ \A f \in Numbers : n[f] # Nil => device.n[f] = n[f]
         /\ device.H = H
    ELSE result[generator] = "notsupported"
=============================================================================
