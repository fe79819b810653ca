------------------------------ MODULE JobLimits ------------------------------
(* What JobLife, the promise about a job, and JobQueue, the code, share.     *)
EXTENDS Naturals
CONSTANTS Jobs,
          MaxRetry      \* MAX_RETRY of ai_analyzer/analyzer.py
ASSUME MaxRetryAssumption == MaxRetry \in Nat \ {0}
==============================================================================
