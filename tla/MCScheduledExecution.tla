----------------------- MODULE MCScheduledExecution ------------------------
(* Streams that have work for both DMA directions, the linebuffer, the AFU, *)
(* Spatz and the fences, and streams that keep several engines busy at once *)
(* and are small enough for every interleaving of the engines.              *)
EXTENDS ScheduledExecution, SequencesExt

CONSTANTS MaxKinds, MaxLength

L2 == "L2TemporaryBinding"

Load    == DMA("DMA1D", ExternalToLocal, <<L2, 0>>, <<TCDM, 0>>, Contiguous(2))
Prefetch == DMA("DMA1D", ExternalToLocal, <<"ModelConstants", 0>>, <<TCDM, 8>>, Contiguous(1))
Replace == DMA("DMA1D", ExternalToLocal, <<"ModelConstants", 4>>, <<TCDM, 2>>, Contiguous(2))
Refill  == DMA("DMA1D", ExternalToLocal, <<L2, 4>>, <<TCDM, 2>>, Contiguous(1))
Store   == DMA("DMA1D", LocalToExternal, <<TCDM, 2>>, <<L2, 4>>, Contiguous(2))
Copy    == DMA("DMA1D", LocalToLocal, <<TCDM, 1>>, <<TCDM, 5>>, Contiguous(1))
Conv    == LineBuffer(<<Read(TCDM, 0, 2), Write(TCDM, 2, 2)>>, 3)
Params  == RQLoad(1, 1)
Table   == AFULut(1, Read("ModelConstants", 0, 1), Read(TCDM, 3, 1), Write(TCDM, 4, 1), FALSE, 1)
Binary  == AFUBinary(<<Read(TCDM, 4, 1), Write(TCDM, 7, 1)>>, FALSE, 1)
Gemm    == Systolic("Gemm32", <<Read(TCDM, 4, 1), Write(TCDM, 6, 1)>>, 1)
Barrier == Fence("Barrier")

Kinds == {Load, Prefetch, Store, Copy, Conv, Params, Table, Gemm, Barrier, DMAWait(0)}

Busy == {Load, Refill, Store, Copy, Conv, Params, Binary}

\* Double buffering, a chain through both DMA directions, a full queue,
\* quantization changing between two convolutions, and buffers passed between
\* the two DMA directions.
LongStreams ==
    {<<Params, Load, Conv, Refill, Store, Load>>,
     <<Load, Refill, Conv, Store, Binary, Copy, Barrier, Refill>>,
     <<Refill, Load, Refill, Conv, Store, Store, Params>>,
     <<Params, Load, Conv, Prefetch, Store, Load, Conv, Store>>,
     <<Prefetch, Load, Store, Binary, Prefetch, Store, Load, Copy>>,
     <<Params, Conv, Prefetch, Params, Conv, Table, Binary, Barrier>>,
     <<Replace, Store, Replace, Prefetch, Store>>}

MCPrograms == BoundedSeq(Kinds, MaxKinds) \cup BoundedSeq(Busy, MaxLength) \cup LongStreams

=============================================================================
