----------------------------- MODULE MCMetricStore -----------------------------
(***************************************************************************)
(* Batches for TLC, and what the source says of them.                      *)
(***************************************************************************)
EXTENDS MetricStore

(* Named for the kinds of their records; the digit is the time stamp.      *)
Samples ==
  [good0 |-> <<"good", 0>>, good1 |-> <<"good", 1>>, bad0 |-> <<"malformed", 0>>,
   inf1 |-> <<"infinite", 1>>, good1i |-> <<"good", 1>>,
   good0u |-> <<"good", 0>>, nan0 |-> <<"unstorable", 0>>, good1u |-> <<"good", 1>>,
   good0x |-> <<"good", 0>>, good1x |-> <<"good", 1>>, good2x |-> <<"good", 2>>, good3x |-> <<"good", 3>>]

AllBatches ==
  [mixed |-> <<"good0", "bad0", "good1">>,
   infinite |-> <<"good1i", "inf1">>,
   broken |-> <<"good0u", "nan0", "good1u">>,
   large |-> <<"good0x", "good1x", "good2x", "good3x">>]

MCRecords == DOMAIN Samples
MCKindOf == [r \in MCRecords |-> Samples[r][1]]
MCStampOf == [r \in MCRecords |-> Samples[r][2]]
MCBatches == DOMAIN AllBatches

(* "malformed ones are skipped, not fatal ...  A batch mixing good and bad  *)
(* records must never lose the good ones": after insert_records(), the     *)
(* good records that are in retention have rows.                           *)
BadRecordsSkipped ==
  \A b \in processed : \A r \in In(b) :
    KindOf[r] = "good" /\ StampOf[r] >= clock - Retention => rows[r] + open[r] > 0

=============================================================================
