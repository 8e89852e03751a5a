--------------------------------- MODULE Parts ---------------------------------
(***************************************************************************)
(* Five parts of the program that share no state: the groups of processes,  *)
(* the assembly of a ClientHello from TCP and from QUIC, the closing of the *)
(* window, and capture on Windows.  Each behaviour is one of one part; the  *)
(* others stay as they began.                                               *)
(*                                                                          *)
(* The parts are extended rather than instantiated: what is proved of them  *)
(* is then said of the very properties that are checked here.               *)
(***************************************************************************)
EXTENDS ProcessGroup, TlsAssembly, QuicAssembly, WindowExit, EtwWorker

VARIABLE part   \* the one that moves

ASSUME PartsAssumption ==
  /\ GroupParameters /\ TlsParameters /\ NumberParameters /\ QuicParameters
  /\ WindowParameters /\ EtwParameters

allVars == <<part, groupVars, tlsVars, quicVars, vars, etwVars>>

PartsInit ==
  /\ part \in {"groups", "tls", "quic", "window", "etw"}
  /\ GroupInit /\ TlsInit /\ QuicInit /\ Init /\ EtwInit
  \* The instances of main differ only in the part that looks at them.
  /\ part # "window" => opener = "none" /\ ~browser

PartsNext ==
  /\ UNCHANGED part
  /\ \/ /\ part = "groups" /\ UNCHANGED <<tlsVars, quicVars, vars, etwVars>>
        /\ GroupNext
     \/ /\ part = "tls" /\ UNCHANGED <<groupVars, quicVars, vars, etwVars>>
        /\ TlsNext
     \/ /\ part = "quic" /\ UNCHANGED <<groupVars, tlsVars, vars, etwVars>>
        /\ QuicNext
     \/ /\ part = "window" /\ UNCHANGED <<groupVars, tlsVars, quicVars, etwVars>>
        /\ Next
     \/ /\ part = "etw" /\ UNCHANGED <<groupVars, tlsVars, quicVars, vars>>
        /\ EtwNext

PartsSpec == PartsInit /\ [][PartsNext]_allVars
-----------------------------------------------------------------------------
(* The state of every part has its type, and the record of a process keeps   *)
(* to its limits (DumpMeta, Flow, Dedup, the work queue).                     *)
PartsTypeOK ==
  /\ GroupTypeOK /\ TlsTypeOK /\ QuicTypeOK /\ TypeOK /\ EtwTypeOK
=============================================================================
