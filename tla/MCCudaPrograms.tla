--------------------------- MODULE MCCudaPrograms ---------------------------
EXTENDS CudaPrograms

\* Square blocks, one wider than high and one higher than wide; one tile and
\* several.
MCMatrixJobs == {<<2, 1, 1, 2>>, <<2, 2, 1, 2>>, <<2, 1, 2, 2>>,
                 <<2, 2, 2, 1>>, <<4, 2, 2, 1>>}

\* Whole blocks and a last block that is not full; one to three launches.
MCMaxJobs == ({1, 2, 3, 5} \X {2} \X {2}) \cup ({3, 4, 6} \X {4} \X {2}) \cup {<<9, 4, 1>>}
=============================================================================
