------------------------------- MODULE MCInvoice -------------------------------
(***************************************************************************)
(* InvoiceNumbers in the settings its properties are about, one of which a *)
(* behaviour follows from its start: "alone", one handler at a time, and   *)
(* numbers typed by hand; "races", two handlers crossing, and prefixes     *)
(* that change.                                                            *)
(***************************************************************************)
EXTENDS InvoiceNumbers, TLC

CONSTANTS s1, s2, s3, vfw, gfc

(* Two sales bill as VFW, a third as GFC.                                  *)
TwoBrands == [s \in Sales |-> IF s = s3 THEN "GFC" ELSE "VFW"]
OneBrand == [s \in Sales |-> "VFW"]
TwoPrefixes == [b \in Brands |-> IF b = "VFW" THEN vfw ELSE gfc]

VARIABLE part

state == <<part, settings, sale, req>>

-----------------------------------------------------------------------------
Races == INSTANCE InvoiceNumbers WITH
  Ops <- {"create", "approve", "export", "void", "prefix"}

(* A handler at work is the one that goes on.                              *)
OneAtATime == \A r \in Reqs : req[r] # Idle => req'[r] # req[r]

PrefixesStay == settings'.prefix = settings.prefix

(* The slots, and the two sales that bill as one brand.                    *)
Symmetry == Permutations(Reqs) \cup Permutations({s1, s2})

InvoiceInit == Init /\ part \in {"alone", "races"}

InvoiceNext ==
  /\ UNCHANGED part
  /\ \/ part = "alone" /\ Next /\ OneAtATime /\ PrefixesStay
     \/ part = "races" /\ Races!Next

InvoiceSpec == InvoiceInit /\ [][InvoiceNext]_state

-----------------------------------------------------------------------------
(* Handlers that run one at a time keep a brand's counter past the numbers *)
(* typed by hand (advanceSequencePast).                                    *)
AloneSequenceIsAhead == part = "alone" => SequenceIsAhead
=============================================================================
