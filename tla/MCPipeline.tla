----------------------------- MODULE MCPipeline -----------------------------
\* Fewer, as many and more micro batches than stages; a pipeline of one stage,
\* which exchanges nothing; and two jobs without backward tasks.
EXTENDS Pipeline

Job(stages, micro_batches, inference, share) ==
  [num_stages |-> stages, num_micro_batches |-> micro_batches,
   is_inference |-> inference, shared |-> share]

MCJobs == {Job(1, 2, FALSE, FALSE), Job(2, 3, FALSE, TRUE), Job(3, 1, FALSE, TRUE),
           Job(3, 2, FALSE, FALSE), Job(3, 4, FALSE, TRUE), Job(3, 3, TRUE, TRUE),
           Job(4, 2, FALSE, FALSE)}
=============================================================================
