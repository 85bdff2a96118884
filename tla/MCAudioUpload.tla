---------------------------- MODULE MCAudioUpload ----------------------------
(* Small instances of AudioUpload. *)
EXTENDS AudioUpload

SetUp == [store |-> "working", provider |-> TRUE]
Sound == [intact |-> TRUE, stt |-> TRUE, audible |-> TRUE]

\* Every recording on a server that is set up, and a sound one on every server.
OneFlaw == (Recordings \X {SetUp}) \cup ({Sound} \X Settings)
=============================================================================
