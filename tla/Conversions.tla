---------------------------- MODULE Conversions -----------------------------
(***************************************************************************)
(* The functions that keep nothing between calls, any one of them called   *)
(* with any of the given arguments.                                        *)
(***************************************************************************)
EXTENDS Codecs, HexDump, Numbers, Time, Glob, Scans, Crc32c

CONSTANT Calls   \* the calls that a caller may begin with

ASSUME CallsAssumption ==
  \A c \in Calls :
    /\ "op" \in DOMAIN c
    /\ CodecCall(c) /\ DumpCall(c) /\ NumberCall(c) /\ TimeCall(c) /\ ScanCall(c)
    /\ GlobCall(c) /\ CrcCall(c)
    /\ c.op \in Decodes => "origin" \notin DOMAIN c

ConversionInit ==
  /\ call \in Calls
  /\ at = 0
  /\ output = <<>>
  /\ result = "pending"

ConversionNext ==
  \/ CodecNext \/ DumpNext \/ NumberNext \/ TimeNext \/ GlobMatch \/ ScanNext \/ CrcNext

ConversionSpec == ConversionInit /\ [][ConversionNext]_callVars

(* Calls keep the types of their arguments, whatever follows on them.      *)
InvCall ==
  /\ "op" \in DOMAIN call
  /\ CodecCall(call) /\ DumpCall(call) /\ NumberCall(call) /\ TimeCall(call) /\ ScanCall(call)
  /\ GlobCall(call) /\ CrcCall(call)

InvConversions ==
  InvCall /\ InvCodec /\ InvDump /\ InvNumbers /\ InvTime /\ GlobIsLanguage /\ InvScan /\ InvCrc
=============================================================================
