------------------------------ MODULE MCCodec ------------------------------
(***************************************************************************)
(* Codec for TLC: bytes of nine values, payloads of up to six bytes, and   *)
(* fields that are zero, one or use their highest byte.                    *)
(***************************************************************************)
EXTENDS Codec

Payloads == {<<>>, <<8>>, <<1, 2, 3>>, <<8, 7, 6, 5, 4, 3>>,
             <<1, 1, 1, 1, 1, 1, 1>>}

M(session, packet, event, payload) ==
  [session_id |-> session, packet_sequence |-> packet, sequence |-> event,
   source_timestamp_ns |-> packet, stream_id |-> session, payload |-> payload]

Messages ==
  {M(s, 1, 1, <<8>>) : s \in {0, 6560}} \cup {M(1, p, 1, <<8>>) : p \in {0, 43046720}}
    \cup {M(1, 1, e, <<1, 2>>) : e \in {0, 4782969}} \cup {M(1, 1, 1, p) : p \in Payloads}
=============================================================================
