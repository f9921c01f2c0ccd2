------------------------ MODULE MCSampleWriteBuffer ------------------------
(* Buffers of one, two and more batches, and every kind of failed write.   *)
EXTENDS SampleWriteBuffer
=============================================================================
