----------------------------- MODULE MCMacLayer ------------------------------
(* The constants of MacLayer for TLC.                                        *)
EXTENDS MacLayer

MCDataRates == [i \in 0..3 |->
    CASE i = 0 -> [mod |-> "LORA", sf |-> 12, cr |-> ""]
      [] i = 1 -> [mod |-> "LORA", sf |-> 9, cr |-> ""]
      [] i = 2 -> [mod |-> "LR_FHSS", sf |-> 0, cr |-> "1/3"]
      [] OTHER -> [mod |-> "LR_FHSS", sf |-> 0, cr |-> "4/6"]]

MCCustomChannelIndices == <<1, 2>>
MCConfigured == [p \in Params |-> 1]
\* Strong enough for the highest LoRa data-rate and a lower power, and weak; and
\* one that does not adapt.
MCDevices == {[adr |-> TRUE, snr |-> -10], [adr |-> TRUE, snr |-> -36],
              [adr |-> FALSE, snr |-> -10]}
=============================================================================
