----------------------------- MODULE ReadingLog -----------------------------
(***************************************************************************)
(* What the stream promises its readers: every message of the raw topic is *)
(* applied to aq_readings once, in order, and a row once written is never  *)
(* changed.  Only messages that retention has removed may be left out.     *)
(* How batches fail, are retried and are run again does not show here:     *)
(* SparkStream implements this.                                            *)
(***************************************************************************)
EXTENDS Integers, Sequences

CONSTANTS Message,  \* what can be on the topic
          Reading   \* those messages that become a row

VARIABLES topic,      \* raw-aq-readings, one partition: all that was published
          rows,       \* aq_readings
          position    \* the messages up to here are applied, -1 before the start

vars == <<topic, rows, position>>

IsReading(m) == m \in Reading
Key(r)       == <<r.sensor, r.time>>

\* The rows that the messages at the given offsets add to a table: of those with
\* one key the first, and none if the key has a row.
Fresh(offsets, table) ==
    {topic[i] : i \in {i \in offsets :
        /\ IsReading(topic[i])
        /\ \A r \in table : Key(r) # Key(topic[i])
        /\ \A j \in offsets : j < i /\ IsReading(topic[j]) => Key(topic[j]) # Key(topic[i])}}

Init == topic = <<>> /\ rows = {} /\ position = -1

\* A producer appends a message.
Publish(m) ==
    /\ topic' = Append(topic, m)
    /\ UNCHANGED <<rows, position>>

\* The topic is read from its end on.
Start ==
    /\ position = -1
    /\ position' = Len(topic)
    /\ UNCHANGED <<topic, rows>>

\* The messages up to n are applied, but for the oldest, those up to lost, if
\* retention has removed them.
Apply(n) ==
    /\ position >= 0 /\ n \in position + 1 .. Len(topic)
    /\ \E lost \in position..n : rows' = rows \union Fresh(lost + 1 .. n, rows)
    /\ position' = n
    /\ UNCHANGED topic

\* Another process writes a reading.
WriteElsewhere(m) ==
    /\ IsReading(m) /\ \A r \in rows : Key(r) # Key(m)
    /\ rows' = rows \union {m}
    /\ UNCHANGED <<topic, position>>

Next == \/ \E m \in Message : Publish(m) \/ WriteElsewhere(m)
        \/ Start
        \/ \E n \in 1..Len(topic) : Apply(n)

Spec == Init /\ [][Next]_vars
=============================================================================
