-------------------------- MODULE BlockCacheProofs --------------------------
(***************************************************************************)
(* Proofs about the block cache, for any number of slots, segments, blocks *)
(* and requests, with and without the writer thread: its structure, the    *)
(* hand-over to the writer, the failures it has to report or to forget;    *)
(* then the data, in the cache and on the media: what a reader sees, what  *)
(* a successful flush means and in which order segments are written.       *)
(***************************************************************************)
EXTENDS BlockCacheProps, FiniteSetTheorems, SequenceTheorems, TLAPS

TypeInv == TypeOK /\ ChunkLeft /\ WriterHasSegment

\* Requests split into at least one chunk and carry typed values.
LEMMA RequestsTyped ==
  /\ \A r \in WriteReqs : /\ Chunks(r.first, r.count) \in Seq(Chunk) \ {<<>>}
                          /\ r.val \in Vals /\ r.streamed \in BOOLEAN
  /\ \A r \in ReadReqs : Chunks(r.first, r.count) \in Seq(Chunk) \ {<<>>}
BY ReqAssumption DEF WriteReq

\* What read_segment returns is the content of a segment.
LEMMA ReadTyped ==
  ASSUME DestTypes, NEW off \in Segs
  PROVE  ReadSegment(off) \in [Block -> Value]
BY DEF DestTypes, ReadSegment, Value

\* The state block_cache_init leaves behind is well typed.
LEMMA InitTyped == Init => TypeInv
<1> SUFFICES ASSUME Init PROVE TypeInv
  OBVIOUS
<1> USE ConstAssumption
<1>1. (CHOOSE o \in Segs : TRUE) \in Segs
  OBVIOUS
<1>2. CacheTypes
  BY <1>1 DEF Init, CacheTypes, Segment, Value
<1>3. AsyncTypes /\ WriterTypes
  BY <1>1 DEF Init, AsyncTypes, WriterTypes, WriterPc
<1>4. MainTypes
  BY DEF Init, MainTypes, MainPc, Op, Call, Value, Slot
<1>5. DestTypes
  BY DEF Init, DestTypes, Value
<1>6. HistTypes
  BY <1>5, ReadTyped DEF Init, HistTypes
<1>7. ChunkLeft /\ WriterHasSegment
  BY DEF Init, ChunkLeft, WriterHasSegment, AsyncPcs, SegPcs
<1> QED BY <1>2, <1>3, <1>4, <1>5, <1>6, <1>7 DEF TypeInv, TypeOK
----------------------------------------------------------------------------
(* What the helpers return and what they leave behind                      *)

\* The new contents of a slot that the steps of the main thread store.
LEMMA SegmentsTyped ==
  ASSUME TypeOK, NEW s \in Slot
  PROVE  /\ segments[s] \in Segment
         /\ Merged(segments[s]) \in Segment
         /\ \A off \in Segs : Initialized(s, off) \in Segment
         /\ [segments[s] EXCEPT !.dirty = {}] \in Segment
         /\ [segments[s] EXCEPT !.dirty = {}, !.valid = Block] \in Segment
         /\ [segments[s] EXCEPT !.in_use = FALSE] \in Segment
         /\ [segments[s] EXCEPT !.last_access = timestamp] \in Segment
<1>1. segments[s] \in Segment /\ timestamp \in Nat
  BY DEF TypeOK, CacheTypes
<1>2. ReadSegment(segments[s].offset) \in [Block -> Value]
  BY <1>1, ReadTyped DEF TypeOK, Segment
<1>3. Merged(segments[s]) \in Segment
  BY <1>1, <1>2 DEF Merged, Segment
<1>4. \A off \in Segs : Initialized(s, off) \in Segment
  BY <1>1 DEF Initialized, Segment
<1> QED BY <1>1, <1>3, <1>4 DEF Segment

\* A write leaves typed content on the media, whether it works or not.
LEMMA WriteTyped ==
  ASSUME DestTypes, NEW off \in Segs, NEW data \in [Block -> Value],
         pwrite_ok(off, data) \/ pwrite_bad(off, data)
  PROVE  DestTypes'
<1>1. Written(off, data) \in [Block -> Value] /\ Damage(off) \in [Block -> Value]
  BY DEF Written, Damage, DestTypes, Value
<1> QED BY <1>1 DEF pwrite_ok, pwrite_bad, DestTypes

\* The chunk the main thread is working on.
LEMMA TargetTyped ==
  ASSUME MainTypes, op.chunks # <<>>
  PROVE  /\ Target.seg \in Segs /\ Target.blocks \subseteq Block
         /\ Tail(op.chunks) \in Seq(Chunk)
         /\ Len(op.chunks) # 1 => Tail(op.chunks) # <<>>
<1>1. op.chunks \in Seq(Chunk)
  BY DEF MainTypes, Op
<1>2. Head(op.chunks) \in Chunk /\ Tail(op.chunks) \in Seq(Chunk)
  BY <1>1
<1>3. Len(op.chunks) # 1 => Tail(op.chunks) # <<>>
  <2>1. Len(Tail(op.chunks)) = Len(op.chunks) - 1
    BY <1>1
  <2>2. Tail(op.chunks) = <<>> <=> Len(Tail(op.chunks)) = 0
    BY <1>2, EmptySeq
  <2> QED BY <1>1, <2>1, <2>2
<1> QED BY <1>2, <1>3 DEF Target, Chunk

\* block_segment_pwrite's copy into the segment.
LEMMA CopiedTyped ==
  ASSUME TypeOK, op.chunks # <<>>
  PROVE  /\ Copied(segments[cur]) \in Segment
         /\ \A x \in BOOLEAN : [Copied(segments[cur]) EXCEPT !.streamed = x] \in Segment
<1>1. segments[cur] \in Segment /\ op.val \in Value
  BY DEF TypeOK, CacheTypes, MainTypes, Op
<1>2. Target.blocks \subseteq Block
  BY TargetTyped DEF TypeOK
<1> QED BY <1>1, <1>2 DEF Copied, Segment

\* Going on to the next chunk, or finishing the call.
LEMMA NextChunkTyped ==
  ASSUME TypeOK, op.chunks # <<>>, NextChunk
  PROVE  /\ pc' \in {"idle", "get"} /\ op' \in Op /\ reported' \in BOOLEAN
         /\ pc' = "get" => op'.chunks # <<>>
<1>1. op \in Op /\ reported \in BOOLEAN
  BY DEF TypeOK, MainTypes, HistTypes
<1>2. /\ Tail(op.chunks) \in Seq(Chunk)
      /\ Len(op.chunks) # 1 => Tail(op.chunks) # <<>>
  BY TargetTyped DEF TypeOK
<1>3. op' \in Op /\ op'.chunks = Tail(op.chunks)
  BY <1>1, <1>2 DEF NextChunk, Op
<1> QED BY <1>1, <1>2, <1>3 DEF NextChunk, Finish

\* Leaving the write of a segment, whoever asked for it.
LEMMA SegmentDoneTyped ==
  ASSUME TypeInv, pc \in SegPcs, NEW ok \in BOOLEAN, SegmentDone(ok)
  PROVE  /\ CacheTypes'
         /\ pc' \in {"idle", "get", "body", "flush"}
         /\ op' \in Op /\ cur' \in Slot /\ reported' \in BOOLEAN
         /\ pc' \in {"get", "body"} => op'.chunks # <<>>
<1> USE DEF TypeInv
<1>0. /\ CacheTypes /\ MainTypes /\ reported \in BOOLEAN
      /\ cur \in Slot /\ op \in Op
      /\ segments \in [Slot -> Segment] /\ timestamp \in Nat /\ trimmed \subseteq Segs
  BY DEF TypeOK, HistTypes, MainTypes, CacheTypes
<1>1. CASE ret = "evict" /\ ok
  <2>1. op.chunks # <<>> /\ Target.seg \in Segs
    BY <1>0, <1>1, TargetTyped DEF ChunkLeft
  <2>2. Initialized(cur, Target.seg) \in Segment
    BY <2>1, <1>0, SegmentsTyped
  <2> QED BY <1>0, <1>1, <2>1, <2>2 DEF SegmentDone, UseSlot, CacheTypes
<1>2. CASE ret = "flush" /\ ok
  BY <1>0, <1>2, SegmentsTyped DEF SegmentDone, CacheTypes
<1>3. CASE ret \in {"evict", "flush"} /\ ~ok
  BY <1>0, <1>3, SegmentsTyped DEF SegmentDone, Finish, CacheTypes
<1>4. CASE ret = "stream" /\ ok
  <2>1. op.chunks # <<>>
    BY <1>4 DEF ChunkLeft
  <2>2. NextChunk /\ cur' = cur /\ timestamp' = timestamp
        /\ trimmed' = trimmed \ {segments[cur].offset}
        /\ segments' = [segments EXCEPT ![cur] = [[segments[cur] EXCEPT !.dirty = {}] EXCEPT !.valid = Block]]
    BY <1>4 DEF SegmentDone
  <2>3. [[segments[cur] EXCEPT !.dirty = {}] EXCEPT !.valid = Block] \in Segment
    BY <1>0, SegmentsTyped DEF Segment
  <2> QED BY <1>0, <2>1, <2>2, <2>3, NextChunkTyped DEF CacheTypes
<1>5. CASE ret = "stream" /\ ~ok
  BY <1>0, <1>5 DEF SegmentDone, Finish, CacheTypes
<1> QED BY <1>1, <1>2, <1>3, <1>4, <1>5 DEF SegmentDone

----------------------------------------------------------------------------
(* Type correctness                                                        *)

\* Steps that start a call.
LEMMA StartTyped == TypeInv /\ StartCall => TypeInv'
<1> SUFFICES ASSUME TypeInv, StartCall PROVE TypeInv'
  OBVIOUS
<1> USE DEF TypeInv, TypeOK
<1>0. NULL \notin Slot /\ Zero \in Value /\ Vals \subseteq Value
  BY ConstAssumption DEF NULL, Slot, Value
<1>1. ASSUME NEW o \in Op, NEW where \in {"get", "drop", "flush"}, Start(o, where),
             CacheTypes', todo' \subseteq Slot, logical' \in [Segs -> [Block -> Value]],
             where = "get" => o.chunks # <<>>
      PROVE  TypeInv'
  <2>1. AsyncTypes' /\ WriterTypes' /\ DestTypes' /\ HistTypes' /\ WriterHasSegment'
    BY <1>1 DEF Start, asyncVars, writerVars, destVars, AsyncTypes, WriterTypes, DestTypes,
                HistTypes, WriterHasSegment
  <2>2. MainTypes'
    BY <1>1 DEF Start, MainTypes, MainPc
  <2>3. ChunkLeft'
    BY <1>1 DEF Start, ChunkLeft, AsyncPcs, SegPcs
  <2> QED BY <1>1, <2>1, <2>2, <2>3
<1>2. ASSUME UNCHANGED <<trimmed, todo, logical>>, NEW o, NEW where, Start(o, where)
      PROVE  CacheTypes' /\ todo' \subseteq Slot /\ logical' \in [Segs -> [Block -> Value]]
  BY <1>2 DEF CacheTypes, MainTypes, HistTypes, Start
<1>3. CASE block_cache_pwrite
  <2>1. PICK r \in WriteReqs :
          /\ Start([Call("pwrite", Chunks(r.first, r.count))
                      EXCEPT !.val = r.val, !.streamed = r.streamed], "get")
          /\ UNCHANGED <<trimmed, todo, logical>>
    BY <1>3 DEF block_cache_pwrite
  <2> DEFINE o == [Call("pwrite", Chunks(r.first, r.count))
                      EXCEPT !.val = r.val, !.streamed = r.streamed]
  <2>2. o \in Op /\ o.chunks # <<>>
    BY RequestsTyped, <1>0 DEF Call, Op
  <2> QED BY <1>1, <1>2, <2>1, <2>2
<1>4. CASE block_cache_pread
  <2>1. PICK r \in ReadReqs :
          /\ Start(Call("pread", Chunks(r.first, r.count)), "get")
          /\ UNCHANGED <<trimmed, todo, logical>>
    BY <1>4 DEF block_cache_pread
  <2> DEFINE o == Call("pread", Chunks(r.first, r.count))
  <2>2. o \in Op /\ o.chunks # <<>>
    BY RequestsTyped, <1>0 DEF Call, Op
  <2> QED BY <1>1, <1>2, <2>1, <2>2
<1>5. CASE block_cache_trim
  <2>1. PICK r \in TrimReqs :
          /\ Start([Call("trim", <<>>) EXCEPT !.discard = DiscardSegs(r.first, r.count)], "drop")
          /\ trimmed' = trimmed \cup TrimSegs(r.first, r.count)
          /\ todo' = {s \in InUse(Slot) : segments[s].offset \in TrimSegs(r.first, r.count)}
          /\ logical' = [off \in Segs |-> IF off \in TrimSegs(r.first, r.count)
                                          THEN [b \in Block |-> Zero] ELSE logical[off]]
    BY <1>5 DEF block_cache_trim
  <2> DEFINE o == [Call("trim", <<>>) EXCEPT !.discard = DiscardSegs(r.first, r.count)]
  <2>2. DiscardSegs(r.first, r.count) \subseteq Segs
    BY DEF DiscardSegs
  <2>3. o \in Op
    <3>1. Call("trim", <<>>) \in Op
      BY <1>0 DEF Call, Op
    <3> QED BY <2>2, <3>1 DEF Op
  <2>4. CacheTypes' /\ todo' \subseteq Slot
    BY <2>1 DEF CacheTypes, Start, TrimSegs, InUse
  <2>5. logical' \in [Segs -> [Block -> Value]]
    BY <2>1, <1>0 DEF HistTypes
  <2> QED BY <1>1, <2>1, <2>3, <2>4, <2>5
<1>6. CASE block_cache_reset
  <2>1. Call("reset", <<>>) \in Op
    BY <1>0 DEF Call, Op
  <2>2. CacheTypes' /\ todo' \subseteq Slot /\ logical' \in [Segs -> [Block -> Value]]
    BY <1>6 DEF block_cache_reset, CacheTypes, HistTypes, Start, InUse
  <2> QED BY <1>1, <1>6, <2>1, <2>2 DEF block_cache_reset
<1>7. CASE block_cache_flush
  <2>1. Call("flush", <<>>) \in Op
    BY <1>0 DEF Call, Op
  <2>2. CacheTypes' /\ todo' \subseteq Slot /\ logical' \in [Segs -> [Block -> Value]]
    BY <1>7 DEF block_cache_flush, CacheTypes, HistTypes, Start, InUse, Dirty
  <2> QED BY <1>1, <1>7, <2>1, <2>2 DEF block_cache_flush
<1>8. CASE block_cache_free
  BY <1>8 DEF block_cache_free, broadcast, cacheVars, writerVars, destVars, histVars,
     CacheTypes, AsyncTypes, MainTypes, MainPc, WriterTypes, DestTypes, HistTypes,
     ChunkLeft, WriterHasSegment, AsyncPcs, SegPcs
<1> QED BY <1>3, <1>4, <1>5, <1>6, <1>7, <1>8 DEF StartCall

\* Steps of the main thread inside a call.
LEMMA MainTyped == TypeInv /\ MainStep => TypeInv'
<1> SUFFICES ASSUME TypeInv, MainStep PROVE TypeInv'
  OBVIOUS
<1> USE DEF TypeInv, TypeOK
<1>0. /\ segments \in [Slot -> Segment] /\ timestamp \in Nat /\ trimmed \subseteq Segs
      /\ cur \in Slot /\ op \in Op /\ reported \in BOOLEAN
      /\ \A s \in Slot : segments[s].offset \in Segs
  BY DEF CacheTypes, MainTypes, HistTypes, Segment
\* A step that touches neither the writer nor the history, except reported.
<1>f. ASSUME UNCHANGED <<writerVars, ops, logical, lastAsync>>,
             CacheTypes', AsyncTypes', DestTypes', seg_to_write' = seg_to_write,
             reported' \in BOOLEAN, reused' \in BOOLEAN
      PROVE  CacheTypes' /\ AsyncTypes' /\ WriterTypes' /\ DestTypes' /\ HistTypes'
             /\ WriterHasSegment'
  BY <1>f DEF writerVars, WriterTypes, HistTypes, WriterHasSegment
<1>1. CASE get_segment_hit
  <2>1. op.chunks # <<>>
    BY <1>1 DEF get_segment_hit, ChunkLeft
  <2>2. CacheTypes' /\ cur' \in Slot /\ pc' \in {"get", "body"}
    <3>1. PICK s \in Cached(Target.seg) :
            \/ UNCHANGED <<segments, timestamp, cur, pc>>
            \/ UseSlot(s, [segments[s] EXCEPT !.last_access = timestamp])
      BY <1>1 DEF get_segment_hit
    <3>2. s \in Slot
      BY DEF Cached, InUse
    <3>3. [segments[s] EXCEPT !.last_access = timestamp] \in Segment
      BY <3>2, SegmentsTyped
    <3>4. trimmed' = trimmed /\ pc = "get"
      BY <1>1 DEF get_segment_hit
    <3> QED BY <1>0, <3>1, <3>2, <3>3, <3>4 DEF UseSlot, CacheTypes
  <2>3. AsyncTypes' /\ DestTypes' /\ MainTypes' /\ ChunkLeft'
    BY <1>1, <2>1, <2>2 DEF get_segment_hit, Wait, destVars, AsyncTypes, DestTypes, MainTypes,
       MainPc, ChunkLeft, AsyncPcs, SegPcs
  <2> QED BY <1>1, <1>f, <2>2, <2>3 DEF get_segment_hit, histVars, HistTypes
<1>2. CASE get_segment_miss
  <2>1. op.chunks # <<>> /\ Target.seg \in Segs
    BY <1>2, TargetTyped DEF get_segment_miss, ChunkLeft
  <2>2. CacheTypes' /\ cur' \in Slot /\ pc' \in {"body", "valid"} /\ reused' \in BOOLEAN
        /\ ret' \in {ret, "evict"} /\ (pc' = "valid" => ret' = "evict")
    <3>1. PICK s \in Slot :
            \/ UseSlot(s, Initialized(s, Target.seg)) /\ UNCHANGED ret
            \/ /\ cur' = s /\ ret' = "evict" /\ pc' = "valid"
               /\ UNCHANGED <<segments, timestamp>>
      BY <1>2 DEF get_segment_miss, InUse, Dirty
    <3>2. Initialized(s, Target.seg) \in Segment
      BY <2>1, SegmentsTyped
    <3>3. trimmed' = trimmed /\ reused' \in BOOLEAN
      BY <1>2 DEF get_segment_miss, HistTypes, InFlight
    <3> QED BY <1>0, <3>1, <3>2, <3>3 DEF UseSlot, CacheTypes
  <2>3. AsyncTypes' /\ DestTypes' /\ MainTypes' /\ ChunkLeft'
    BY <1>2, <2>1, <2>2 DEF get_segment_miss, asyncVars, destVars, AsyncTypes, DestTypes,
       MainTypes, MainPc, ChunkLeft, AsyncPcs, SegPcs
  <2> QED BY <1>0, <1>2, <1>f, <2>2, <2>3 DEF get_segment_miss, asyncVars
<1>3. CASE block_segment_pwrite
  <2>1. op.chunks # <<>>
    BY <1>3 DEF block_segment_pwrite, ChunkLeft
  <2>2. /\ Copied(segments[cur]) \in Segment
        /\ [Copied(segments[cur]) EXCEPT !.streamed = @ /\ op.streamed] \in Segment
    BY <2>1, CopiedTyped, <1>0 DEF Op, Segment
  <2>3. logical' \in [Segs -> [Block -> Value]]
    <3>1. op.val \in Value /\ segments[cur].offset \in Segs
      BY <1>0 DEF Op
    <3> QED BY <1>3, <3>1 DEF block_segment_pwrite, HistTypes
  <2>4. CacheTypes'
    BY <1>0, <1>3, <2>2 DEF block_segment_pwrite, CacheTypes
  <2>5. AsyncTypes' /\ DestTypes' /\ WriterTypes' /\ WriterHasSegment'
    BY <1>3 DEF block_segment_pwrite, asyncVars, destVars, writerVars, AsyncTypes, DestTypes,
       WriterTypes, WriterHasSegment
  <2>6. CASE StreamOut(Copied(segments[cur]))
    <3>1. /\ pc' \in {"async_check", "wr_begin"} /\ ret' = "stream"
          /\ UNCHANGED <<op, reported, cur, todo, ops, lastAsync, reused>>
      BY <1>3, <2>6 DEF block_segment_pwrite
    <3> QED BY <2>1, <2>3, <2>4, <2>5, <3>1 DEF MainTypes, MainPc, HistTypes, ChunkLeft,
            AsyncPcs, SegPcs
  <2>7. CASE ~StreamOut(Copied(segments[cur]))
    <3>1. NextChunk /\ UNCHANGED <<ret, cur, todo, ops, lastAsync, reused>>
      BY <1>3, <2>7 DEF block_segment_pwrite
    <3>2. /\ pc' \in {"idle", "get"} /\ op' \in Op /\ reported' \in BOOLEAN
          /\ pc' = "get" => op'.chunks # <<>>
      BY <2>1, <3>1, NextChunkTyped
    <3> QED BY <2>3, <2>4, <2>5, <3>1, <3>2 DEF MainTypes, MainPc, HistTypes, ChunkLeft,
            AsyncPcs, SegPcs
  <2> QED BY <2>6, <2>7
<1>4. CASE block_segment_pread
  <2>1. op.chunks # <<>>
    BY <1>4 DEF block_segment_pread, ChunkLeft
  <2>2. CacheTypes'
    BY <1>0, <1>4, SegmentsTyped DEF block_segment_pread, CacheTypes
  <2>3. AsyncTypes' /\ DestTypes' /\ seg_to_write' = seg_to_write
    BY <1>4 DEF block_segment_pread, MakeValidBad, asyncVars, AsyncTypes, DestTypes
  <2>4. /\ pc' \in {"idle", "get"} /\ op' \in Op /\ reported' \in BOOLEAN
        /\ pc' = "get" => op'.chunks # <<>>
    BY <1>0, <1>4, <2>1, NextChunkTyped DEF block_segment_pread, Finish
  <2>5. MainTypes' /\ ChunkLeft'
    BY <1>4, <2>4 DEF block_segment_pread, MainTypes, MainPc, ChunkLeft, AsyncPcs, SegPcs
  <2> QED BY <1>4, <1>f, <2>2, <2>3, <2>4, <2>5 DEF block_segment_pread, HistTypes
<1>5. CASE FlushNext
  <2>1. /\ pc' \in {"idle", "valid"} /\ cur' \in Slot /\ reported' \in BOOLEAN /\ todo' \subseteq Slot
        /\ ret' \in {ret, "flush"} /\ (pc' = "valid" => ret' = "flush")
    BY <1>0, <1>5 DEF FlushNext, Finish, MainTypes
  <2>2. MainTypes' /\ ChunkLeft'
    BY <1>5, <2>1 DEF FlushNext, MainTypes, MainPc, ChunkLeft, AsyncPcs, SegPcs
  <2> QED BY <1>5, <1>f, <2>1, <2>2 DEF FlushNext, cacheVars, asyncVars, destVars, CacheTypes,
          AsyncTypes, DestTypes, HistTypes
<1>6. CASE DropSegment
  BY <1>0, <1>6, <1>f, SegmentsTyped DEF DropSegment, Wait, destVars, histVars, CacheTypes,
     AsyncTypes, MainTypes, DestTypes, HistTypes, ChunkLeft
<1>7. CASE TrimDone
  <2>1. disk' \in [Segs -> [Block -> Value]]
    BY <1>7 DEF TrimDone, DestTypes, Value
  <2> QED BY <1>0, <1>7, <1>f, <2>1 DEF TrimDone, Finish, cacheVars, asyncVars, CacheTypes, AsyncTypes,
          MainTypes, MainPc, DestTypes, HistTypes, ChunkLeft, AsyncPcs, SegPcs
<1>8. CASE ResetDone
  <2>1. logical' \in [Segs -> [Block -> Value]]
    BY <1>8, ReadTyped DEF ResetDone
  <2> QED BY <1>8, <2>1 DEF ResetDone, cacheVars, writerVars, CacheTypes, AsyncTypes, WriterTypes,
          MainTypes, MainPc, DestTypes, HistTypes, ChunkLeft, AsyncPcs, SegPcs, WriterHasSegment
<1>9. CASE FreeJoin
  <2>1. CacheTypes'
    BY <1>0, <1>9, SegmentsTyped DEF FreeJoin, CacheTypes
  <2> QED BY <1>9, <2>1, <1>f DEF FreeJoin, asyncVars, destVars, histVars, AsyncTypes, MainTypes,
          MainPc, DestTypes, HistTypes, ChunkLeft, AsyncPcs, SegPcs
<1>10. CASE async_check \/ sync_lock \/ sync_wait
  BY <1>0, <1>10, <1>f DEF async_check, sync_lock, sync_wait, Finish, Wait, cacheVars, asyncVars,
     destVars, histVars, CacheTypes, AsyncTypes, MainTypes, MainPc, DestTypes, HistTypes,
     ChunkLeft, AsyncPcs, SegPcs
<1>11. CASE async_lock
  BY <1>0, <1>11 DEF async_lock, Wait, broadcast, cacheVars, writerVars, destVars, CacheTypes,
     AsyncTypes, MainTypes, MainPc, WriterTypes, DestTypes, HistTypes, ChunkLeft, AsyncPcs, SegPcs,
     WriterHasSegment
\* The steps that leave the write of a segment.
<1>d. ASSUME pc \in SegPcs, NEW ok \in BOOLEAN, SegmentDone(ok), UNCHANGED <<ret, todo>>,
             UNCHANGED <<writerVars, ops, logical, lastAsync, reused>>,
             AsyncTypes', DestTypes', seg_to_write' = seg_to_write
      PROVE  TypeInv'
  <2>1. /\ CacheTypes' /\ pc' \in {"idle", "get", "body", "flush"}
        /\ op' \in Op /\ cur' \in Slot /\ reported' \in BOOLEAN
        /\ pc' \in {"get", "body"} => op'.chunks # <<>>
    BY <1>d, SegmentDoneTyped
  <2>2. MainTypes' /\ ChunkLeft'
    BY <1>d, <2>1 DEF MainTypes, MainPc, ChunkLeft, AsyncPcs, SegPcs
  <2> QED BY <1>d, <1>f, <2>1, <2>2 DEF HistTypes
\* The steps that stay inside the write of a segment.
<1>s. ASSUME pc \in SegPcs, pc' \in SegPcs, UNCHANGED <<op, cur, ret, todo, reported>>,
             UNCHANGED <<writerVars, ops, logical, lastAsync, reused>>,
             CacheTypes', AsyncTypes', DestTypes', seg_to_write' = seg_to_write
      PROVE  TypeInv'
  BY <1>s, <1>f, <1>0 DEF MainTypes, MainPc, ChunkLeft, AsyncPcs, SegPcs, HistTypes
<1>12. CASE flush_segment
  <2>1. /\ pc \in SegPcs /\ AsyncTypes' /\ DestTypes' /\ seg_to_write' = seg_to_write
        /\ UNCHANGED <<ret, todo>> /\ UNCHANGED <<writerVars, ops, logical, lastAsync, reused>>
    <3>1. faults' = faults \/ faults' = faults + 1
      BY <1>12, Zenon DEF flush_segment, MakeValidBad
    <3>2. faults' \in Nat
      BY <3>1 DEF DestTypes
    <3> QED BY <1>12, <3>2 DEF flush_segment, asyncVars, AsyncTypes, DestTypes, SegPcs
  <2>2. CASE SegmentDone(FALSE)
    BY <2>1, <2>2, <1>d
  <2>3. CASE /\ segments' = [segments EXCEPT ![cur] = Merged(segments[cur])]
             /\ pc' = IF UsePthreads THEN "sync_check" ELSE "wr_begin"
             /\ UNCHANGED <<timestamp, trimmed, op, cur, faults, reported>>
    <3>1. CacheTypes'
      BY <1>0, <2>3, SegmentsTyped DEF CacheTypes
    <3>2. pc' \in SegPcs
      BY <2>3 DEF SegPcs
    <3> QED BY <2>1, <2>3, <3>1, <3>2, <1>s
  <2> QED BY <1>12, <2>2, <2>3 DEF flush_segment
<1>13. CASE check_async_error
  BY <1>13, <1>d DEF check_async_error, Errored, asyncVars, destVars, AsyncTypes, DestTypes, SegPcs
<1>14. CASE sync_check
  BY <1>14, <1>d, <1>s DEF sync_check, cacheVars, asyncVars, destVars, CacheTypes, AsyncTypes,
     DestTypes, SegPcs
<1>15. CASE wr_begin
  BY <1>0, <1>15, <1>d, <1>s DEF wr_begin, SyncFailed, cacheVars, asyncVars, destVars, CacheTypes,
     AsyncTypes, DestTypes, SegPcs
<1>16. CASE wr_pwrite
  <2>1. /\ pc \in SegPcs /\ UNCHANGED <<ret, todo>>
        /\ UNCHANGED <<writerVars, ops, logical, lastAsync, reused>>
    BY <1>16 DEF wr_pwrite, SegPcs
  <2>2. AsyncTypes' /\ seg_to_write' = seg_to_write
    BY <1>0, <1>16 DEF wr_pwrite, SyncFailed, asyncVars, AsyncTypes
  <2>3. DestTypes'
    <3>1. pwrite_ok(segments[cur].offset, segments[cur].data) \/ pwrite_bad(segments[cur].offset, segments[cur].data)
      BY <1>16 DEF wr_pwrite
    <3>2. segments[cur].data \in [Block -> Value]
      BY <1>0 DEF Segment
    <3> QED BY <1>0, <3>1, <3>2, WriteTyped
  <2>4. CASE SegmentDone(TRUE) \/ SegmentDone(FALSE)
    BY <2>1, <2>2, <2>3, <2>4, <1>d
  <2>5. CASE pc' = "wr_verify" /\ UNCHANGED <<cacheVars, op, cur, reported>>
    <3>1. CacheTypes' /\ pc' \in SegPcs
      BY <2>5 DEF cacheVars, CacheTypes, SegPcs
    <3> QED BY <2>1, <2>2, <2>3, <2>5, <3>1, <1>s
  <2> QED BY <1>16, <2>4, <2>5 DEF wr_pwrite, AfterPwrite, SyncFailed
<1>17. CASE wr_verify
  <2>1. /\ pc \in SegPcs /\ UNCHANGED <<ret, todo>>
        /\ UNCHANGED <<writerVars, ops, logical, lastAsync, reused>>
        /\ DestTypes'
    <3>1. faults' = faults \/ faults' = faults + 1
      BY <1>17, Zenon DEF wr_verify
    <3>2. faults' \in Nat
      BY <3>1 DEF DestTypes
    <3> QED BY <1>17, <3>2 DEF wr_verify, SegPcs, DestTypes
  <2>2. AsyncTypes' /\ seg_to_write' = seg_to_write
    BY <1>0, <1>17 DEF wr_verify, SyncFailed, asyncVars, AsyncTypes
  <2>3. SegmentDone(TRUE) \/ SegmentDone(FALSE)
    BY <1>17 DEF wr_verify, SyncFailed
  <2> QED BY <2>1, <2>2, <2>3, <1>d
<1> QED BY <1>1, <1>2, <1>3, <1>4, <1>5, <1>6, <1>7, <1>8, <1>9, <1>10, <1>11, <1>12,
           <1>13, <1>14, <1>15, <1>16, <1>17 DEF MainStep

\* Steps of the writer thread.
LEMMA WriterTyped == TypeInv /\ WriterStep => TypeInv'
<1> SUFFICES ASSUME TypeInv, WriterStep PROVE TypeInv'
  OBVIOUS
<1> USE DEF TypeInv, TypeOK
<1>1. CacheTypes' /\ MainTypes' /\ HistTypes' /\ ChunkLeft'
  BY DEF WriterStep, writer_top, writer_begin, writer_pwrite, writer_verify, writer_failed,
     writer_done, WriterUnchanged, cacheVars, mainVars, histVars, CacheTypes, MainTypes,
     HistTypes, ChunkLeft
<1>2. seg_to_write # NULL => /\ seg_to_write \in Slot
                             /\ segments[seg_to_write].offset \in Segs
                             /\ segments[seg_to_write].data \in [Block -> Value]
  BY DEF AsyncTypes, CacheTypes, Segment
<1>3. CASE writer_top \/ writer_done
  BY <1>1, <1>3 DEF writer_top, writer_done, HasWork, SkipAfterError, ExitOrWait, Wait, broadcast,
     destVars, AsyncTypes, WriterTypes, WriterPc, DestTypes, WriterHasSegment
<1>4. CASE writer_begin \/ writer_failed \/ writer_verify
  <2>1. faults' \in Nat
    BY <1>4 DEF writer_begin, writer_failed, writer_verify, destVars, DestTypes
  <2>2. seg_to_write # NULL
    BY <1>4 DEF writer_begin, writer_failed, writer_verify, WriterHasSegment
  <2>3. AsyncTypes' /\ seg_to_write' = seg_to_write
    BY <1>2, <1>4, <2>2 DEF writer_begin, writer_failed, writer_verify, asyncVars, AsyncTypes
  <2>4. WriterTypes' /\ WriterHasSegment'
    BY <1>2, <1>4, <2>2, <2>3 DEF writer_begin, writer_failed, writer_verify, WriterTypes, WriterPc,
       WriterHasSegment
  <2>5. DestTypes'
    BY <1>4, <2>1 DEF writer_begin, writer_failed, writer_verify, destVars, DestTypes
  <2> QED BY <1>1, <2>3, <2>4, <2>5
<1>5. CASE writer_pwrite
  <2>1. DestTypes'
    <3>1. seg_to_write # NULL /\ woff \in Segs
      BY <1>5 DEF writer_pwrite, WriterHasSegment, WriterTypes
    <3>2. pwrite_ok(woff, segments[seg_to_write].data) \/ pwrite_bad(woff, segments[seg_to_write].data)
      BY <1>5 DEF writer_pwrite
    <3> QED BY <1>2, <3>1, <3>2, WriteTyped
  <2> QED BY <1>1, <1>5, <2>1 DEF writer_pwrite, AfterWriterPwrite, asyncVars, AsyncTypes,
          WriterTypes, WriterPc, WriterHasSegment
<1> QED BY <1>3, <1>4, <1>5 DEF WriterStep

\* The inductive step of type correctness.
LEMMA StepTyped == TypeInv /\ [Next]_vars => TypeInv'
<1> SUFFICES ASSUME TypeInv, [Next]_vars PROVE TypeInv'
  OBVIOUS
<1>1. CASE SpuriousWakeup
  BY <1>1 DEF SpuriousWakeup, TypeInv, TypeOK, cacheVars, mainVars, writerVars, destVars, histVars,
     CacheTypes, AsyncTypes, MainTypes, WriterTypes, DestTypes, HistTypes, ChunkLeft,
     WriterHasSegment
<1>2. CASE UNCHANGED vars
  BY <1>2 DEF vars, TypeInv, TypeOK, cacheVars, asyncVars, mainVars, writerVars, destVars, histVars,
     CacheTypes, AsyncTypes, MainTypes, WriterTypes, DestTypes, HistTypes, ChunkLeft,
     WriterHasSegment
<1> QED BY <1>1, <1>2, StartTyped, MainTyped, WriterTyped DEF Next, Freed

\* Type correctness of the cache, its two threads and the media, for every
\* number of slots, segments, blocks and requests.
THEOREM TypeCorrect == Spec => []TypeOK
<1>1. Init => TypeInv
  BY InitTyped
<1>2. TypeInv /\ [Next]_vars => TypeInv'
  BY StepTyped
<1>3. TypeInv => TypeOK
  BY DEF TypeInv
<1> QED BY <1>1, <1>2, <1>3, PTL DEF Spec

----------------------------------------------------------------------------
(* The hand-off between the threads                                        *)

\* Leaving the write of a segment keeps the hand-off intact, provided a slot
\* about to be given away is not the writer's.
LEMMA SegmentDoneHandoff ==
  ASSUME IInv, pc \in SegPcs, NEW ok \in BOOLEAN, SegmentDone(ok),
         (ret = "evict" /\ ok) => (seg_to_write # cur \/ reused),
         UNCHANGED <<seg_to_write, running, wpc, reused, ret, todo>>
  PROVE  Handoff'
<1> USE DEF IInv, TypeOK
<1>0. /\ cur \in Slot /\ segments \in [Slot -> Segment]
      /\ seg_to_write \in Slot \cup {NULL} /\ NULL \notin Slot
  BY ConstAssumption DEF CacheTypes, AsyncTypes, MainTypes, NULL, Slot
<1>1. CASE ret = "evict" /\ ok
  <2>1. /\ segments' = [segments EXCEPT ![cur] = Initialized(cur, Target.seg)]
        /\ pc' = "body" /\ cur' = cur
    BY <1>1 DEF SegmentDone, UseSlot
  <2>2. /\ Initialized(cur, Target.seg).in_use
        /\ Initialized(cur, Target.seg).dirty = {}
    BY <1>0 DEF Initialized, Segment
  <2> QED BY <1>0, <1>1, <2>1, <2>2 DEF Handoff, WriterSegment, DirtyIsValid, CurInUse, Elsewhere,
          HandsOverComplete, NoThreads, WriterExit, AsyncPcs, SegPcs
<1>2. CASE ~(ret = "evict" /\ ok)
  <2>1. PICK seg \in {segments[cur], [segments[cur] EXCEPT !.dirty = {}],
                      [[segments[cur] EXCEPT !.dirty = {}] EXCEPT !.valid = Block]} :
          segments' = [segments EXCEPT ![cur] = seg]
    BY <1>0, <1>2 DEF SegmentDone
  <2>2. /\ seg.in_use = segments[cur].in_use
        /\ seg.valid = segments[cur].valid \/ seg.valid = Block
        /\ seg.dirty = segments[cur].dirty \/ seg.dirty = {}
        /\ seg.dirty = {} \/ seg.valid = segments[cur].valid
    BY <1>0 DEF Segment
  <2>3. cur' = cur /\ pc' \in {"idle", "get", "flush"} /\ (pc' = "flush" => ret = "flush")
    BY <1>2 DEF SegmentDone, NextChunk, Finish
  <2>4. todo \subseteq Slot
    BY DEF MainTypes
  <2> QED BY <1>0, <2>1, <2>2, <2>3, <2>4 DEF Handoff, WriterSegment, DirtyIsValid, CurInUse, Elsewhere,
          HandsOverComplete, NoThreads, WriterExit, AsyncPcs, SegPcs
<1> QED BY <1>1, <1>2

\* The steps of the main thread keep the hand-off intact.
LEMMA MainHandoff == IInv /\ MainStep => Handoff'
<1> SUFFICES ASSUME IInv, MainStep PROVE Handoff'
  OBVIOUS
<1> USE DEF IInv, TypeOK
<1>0. /\ cur \in Slot /\ segments \in [Slot -> Segment]
      /\ seg_to_write \in Slot \cup {NULL} /\ NULL \notin Slot
      /\ UsePthreads \in BOOLEAN
  BY ConstAssumption DEF CacheTypes, AsyncTypes, MainTypes, NULL, Slot
<1>h. Handoff
  OBVIOUS
\* A step of the main thread that changes no segment.
<1>k. ASSUME UNCHANGED <<segments, seg_to_write, running, wpc, reused>>,
             CurInUse', Elsewhere', HandsOverComplete', pc' \notin {"freed"} \cup AsyncPcs,
             UsePthreads => running
      PROVE  Handoff'
  BY <1>k DEF Handoff, WriterSegment, DirtyIsValid, NoThreads, WriterExit
<1>r. pc \notin {"join", "freed"} /\ UsePthreads => running
  BY DEF Handoff, WriterExit, AsyncTypes
<1>1. CASE get_segment_hit
  <2>1. PICK s \in Cached(Target.seg) :
          \/ UNCHANGED <<segments, cur, pc>>
          \/ ~InFlight(s) /\ UseSlot(s, [segments[s] EXCEPT !.last_access = timestamp])
    BY <1>1 DEF get_segment_hit, wait_for_write_completion
  <2>2. s \in Slot /\ segments[s].in_use
    BY DEF Cached, InUse
  <2>3. /\ UNCHANGED <<seg_to_write, running, wpc, reused>>
        /\ pc = "get"
    BY <1>1 DEF get_segment_hit, writerVars, histVars
  <2> DEFINE new == [segments[s] EXCEPT !.last_access = timestamp]
  <2>4. new.in_use /\ new.valid = segments[s].valid /\ new.dirty = segments[s].dirty
    BY <1>0, <2>2 DEF Segment
  <2>5. CASE UNCHANGED <<segments, cur, pc>>
    BY <1>h, <2>3, <2>5 DEF Handoff, WriterSegment, DirtyIsValid, CurInUse, Elsewhere,
       HandsOverComplete, NoThreads, WriterExit, AsyncPcs, SegPcs
  <2>6. CASE ~InFlight(s) /\ UseSlot(s, new)
    <3>1. segments' = [segments EXCEPT ![s] = new] /\ cur' = s /\ pc' = "body" /\ seg_to_write # s
      BY <2>6 DEF UseSlot, InFlight
    <3> HIDE DEF new
    <3> QED BY <1>0, <1>h, <1>r, <2>2, <2>3, <2>4, <3>1 DEF Handoff, WriterSegment, DirtyIsValid,
            CurInUse, Elsewhere, HandsOverComplete, NoThreads, WriterExit, AsyncPcs, SegPcs
  <2> QED BY <2>1, <2>5, <2>6
<1>2. CASE get_segment_miss
  <2>1. UNCHANGED <<seg_to_write, running, wpc>> /\ pc = "get"
    BY <1>2 DEF get_segment_miss, writerVars, asyncVars
  <2>2. PICK s \in Slot :
          \/ /\ UseSlot(s, Initialized(s, Target.seg))
             /\ ~segments[s].in_use
             /\ reused' = reused
          \/ /\ UseSlot(s, Initialized(s, Target.seg))
             /\ reused' = (reused \/ InFlight(s))
          \/ /\ cur' = s /\ pc' = "valid" /\ ret' = "evict" /\ segments[s].in_use
             /\ UNCHANGED <<segments, reused>>
    BY <1>2 DEF get_segment_miss, InUse, Dirty
  <2>3. /\ Initialized(s, Target.seg).in_use
        /\ Initialized(s, Target.seg).dirty = {}
    BY <1>0 DEF Initialized, Segment
  <2>4. CASE UseSlot(s, Initialized(s, Target.seg))
    <3>1. /\ segments' = [segments EXCEPT ![s] = Initialized(s, Target.seg)]
          /\ cur' = s /\ pc' = "body"
      BY <2>4 DEF UseSlot
    <3>2. \/ ~segments[s].in_use /\ reused' = reused
          \/ reused' = (reused \/ InFlight(s))
      BY <2>2, <3>1
    <3>3. ~segments[s].in_use => seg_to_write # s
      BY <1>0, <1>h DEF Handoff, WriterSegment
    <3>4. (seg_to_write # s \/ reused') /\ (reused => reused')
      <4>1. CASE ~segments[s].in_use /\ reused' = reused
        BY <3>3, <4>1
      <4>2. CASE reused' = (reused \/ InFlight(s))
        <5>1. CASE reused \/ InFlight(s)
          BY <4>2, <5>1
        <5>2. CASE ~reused /\ ~InFlight(s)
          BY <5>2 DEF InFlight
        <5> QED BY <5>1, <5>2
      <4> QED BY <3>2, <4>1, <4>2
    <3> QED BY <1>0, <1>h, <1>r, <2>1, <2>3, <3>1, <3>4 DEF Handoff, WriterSegment, DirtyIsValid,
            CurInUse, Elsewhere, HandsOverComplete, NoThreads, WriterExit, AsyncPcs, SegPcs
  <2>5. CASE /\ cur' = s /\ pc' = "valid" /\ ret' = "evict" /\ segments[s].in_use
             /\ UNCHANGED <<segments, reused>>
    BY <1>k, <1>h, <1>r, <2>1, <2>5 DEF CurInUse, Elsewhere, HandsOverComplete, AsyncPcs, SegPcs
  <2> QED BY <2>2, <2>4, <2>5
<1>3. CASE block_segment_pwrite
  <2> DEFINE seg == Copied(segments[cur])
             fin == [seg EXCEPT !.streamed = @ /\ op.streamed]
  <2>1. /\ pc = "body" /\ cur' = cur
        /\ UNCHANGED <<seg_to_write, running, wpc, reused>>
    BY <1>3 DEF block_segment_pwrite, asyncVars, writerVars
  <2>2. /\ seg.in_use /\ segments[cur].valid \subseteq seg.valid /\ seg.dirty \subseteq seg.valid
        /\ seg.valid \subseteq Block
        /\ fin.in_use /\ fin.valid = seg.valid /\ fin.dirty = seg.dirty
    <3>1. Target.blocks \subseteq Block
      BY <2>1, TargetTyped DEF ChunkLeft
    <3>2. segments[cur].in_use /\ segments[cur].dirty \subseteq segments[cur].valid
      BY <1>0, <1>h, <2>1 DEF Handoff, CurInUse, DirtyIsValid
    <3>3. /\ seg.in_use = segments[cur].in_use
          /\ seg.valid = segments[cur].valid \cup Target.blocks
          /\ seg.dirty = segments[cur].dirty \cup Target.blocks
          /\ seg \in Segment
      BY <1>0, CopiedTyped, <2>1 DEF Copied, Segment, ChunkLeft
    <3>4. segments[cur].valid \subseteq Block
      BY <1>0 DEF Segment
    <3> HIDE DEF seg
    <3>5. fin.in_use = seg.in_use /\ fin.valid = seg.valid /\ fin.dirty = seg.dirty
      BY <3>3 DEF Segment
    <3> QED BY <3>1, <3>2, <3>3, <3>4, <3>5
  <2>3. CASE StreamOut(seg)
    <3>1. /\ segments' = [segments EXCEPT ![cur] = seg] /\ ret' = "stream"
          /\ pc' = IF UsePthreads THEN "async_check" ELSE "wr_begin"
      BY <1>3, <2>3 DEF block_segment_pwrite
    <3>2. seg.valid = Block
      BY <2>2, <2>3 DEF StreamOut
    <3> HIDE DEF seg
    <3> QED BY <1>0, <1>h, <1>r, <2>1, <2>2, <3>1, <3>2 DEF Handoff, WriterSegment, DirtyIsValid,
            CurInUse, Elsewhere, HandsOverComplete, NoThreads, WriterExit, AsyncPcs, SegPcs
  <2>4. CASE ~StreamOut(seg)
    <3>1. segments' = [segments EXCEPT ![cur] = fin] /\ NextChunk
      BY <1>3, <2>4 DEF block_segment_pwrite
    <3>2. pc' \in {"idle", "get"}
      BY <3>1 DEF NextChunk, Finish
    <3>3. seg_to_write # cur \/ reused
      BY <1>h, <2>1 DEF Handoff, Elsewhere
    <3> HIDE DEF fin, seg
    <3> QED BY <1>0, <1>h, <1>r, <2>1, <2>2, <3>1, <3>2, <3>3 DEF Handoff, WriterSegment,
            DirtyIsValid, CurInUse, Elsewhere, HandsOverComplete, NoThreads, WriterExit,
            AsyncPcs, SegPcs
  <2> QED BY <2>3, <2>4
<1>m. Merged(segments[cur]).in_use = segments[cur].in_use
      /\ Merged(segments[cur]).valid = Block
      /\ Merged(segments[cur]).dirty \subseteq Block
  BY <1>0 DEF Merged, Segment
<1>4. CASE block_segment_pread
  <2>1. pc' \in {"idle", "get"} /\ UNCHANGED <<seg_to_write, running, wpc, reused, cur>> /\ pc = "body"
    BY <1>4 DEF block_segment_pread, NextChunk, Finish, asyncVars, writerVars
  <2>2. segments' = segments \/ segments' = [segments EXCEPT ![cur] = Merged(segments[cur])]
    BY <1>4 DEF block_segment_pread
  <2> QED BY <1>0, <1>h, <1>m, <1>r, <2>1, <2>2 DEF Handoff, WriterSegment, DirtyIsValid, CurInUse,
          Elsewhere, HandsOverComplete, NoThreads, WriterExit, AsyncPcs, SegPcs
<1>5. CASE FlushNext
  <2>1. UNCHANGED <<segments, seg_to_write, running, wpc, reused>> /\ pc = "flush"
    BY <1>5 DEF FlushNext, cacheVars, asyncVars, writerVars
  <2>2. \/ pc' = "idle"
        \/ cur' \in todo /\ todo' \subseteq todo /\ pc' = "valid"
    BY <1>5 DEF FlushNext, Finish
  <2> QED BY <1>k, <1>h, <1>r, <2>1, <2>2 DEF Handoff, CurInUse, Elsewhere, HandsOverComplete,
          AsyncPcs, SegPcs
<1>6. CASE DropSegment
  <2>1. /\ UNCHANGED <<seg_to_write, running, wpc, reused, pc, cur>> /\ pc = "drop"
    BY <1>6 DEF DropSegment, writerVars, histVars
  <2>2. PICK s \in todo : \/ segments' = segments
                          \/ /\ segments' = [segments EXCEPT ![s].in_use = FALSE]
                             /\ seg_to_write # s
    BY <1>6 DEF DropSegment, wait_for_write_completion, InFlight
  <2>3. s \in Slot
    BY DEF MainTypes
  <2>4. \A t \in Slot : /\ segments'[t].valid = segments[t].valid
                        /\ segments'[t].dirty = segments[t].dirty
                        /\ seg_to_write = t => segments'[t].in_use = segments[t].in_use
    BY <1>0, <2>2, <2>3 DEF Segment
  <2> QED BY <1>0, <1>h, <2>1, <2>4 DEF Handoff, WriterSegment, DirtyIsValid, CurInUse, Elsewhere,
          HandsOverComplete, NoThreads, WriterExit, AsyncPcs, SegPcs
<1>7. CASE TrimDone \/ ResetDone
  <2>1. /\ UNCHANGED <<segments, seg_to_write, running, wpc, reused>>
        /\ pc = "drop" /\ pc' = "idle"
    BY <1>7 DEF TrimDone, ResetDone, Finish, cacheVars, asyncVars, writerVars, histVars
  <2> QED BY <1>k, <1>h, <1>r, <2>1 DEF CurInUse, Elsewhere, HandsOverComplete, AsyncPcs, SegPcs
<1>8. CASE FreeJoin
  <2>1. /\ UNCHANGED <<seg_to_write, running, wpc, reused>>
        /\ pc' = "freed" /\ wpc = "exited"
        /\ segments' = [s \in Slot |-> [segments[s] EXCEPT !.in_use = FALSE]]
    BY <1>8 DEF FreeJoin, asyncVars, writerVars, histVars
  <2>2. \A t \in Slot : /\ segments'[t].valid = segments[t].valid
                        /\ segments'[t].dirty = segments[t].dirty
    BY <1>0, <2>1 DEF Segment
  <2> QED BY <1>0, <1>h, <2>1, <2>2 DEF Handoff, WriterSegment, DirtyIsValid, CurInUse, Elsewhere,
          HandsOverComplete, NoThreads, WriterExit, AsyncPcs, SegPcs
<1>9. CASE async_check \/ sync_lock \/ sync_wait
  <2>1. UNCHANGED <<segments, seg_to_write, running, wpc, reused, cur, ret, todo>>
    BY <1>9 DEF async_check, sync_lock, sync_wait, cacheVars, asyncVars, writerVars, histVars
  <2>2. \/ pc' = "idle" /\ pc = "async_check"
        \/ pc' = "async_lock" /\ pc = "async_check"
        \/ pc \in SegPcs /\ pc' = "sync_wait"
        \/ pc \in SegPcs /\ pc' \in {"wr_begin", "recheck"} /\ seg_to_write # cur
    BY <1>9 DEF async_check, sync_lock, sync_wait, Finish, InFlight, SegPcs
  <2> QED BY <1>0, <1>h, <1>r, <2>1, <2>2 DEF Handoff, WriterSegment, DirtyIsValid, CurInUse,
          Elsewhere, HandsOverComplete, NoThreads, WriterExit, AsyncPcs, SegPcs
<1>10. CASE async_lock
  <2>1. /\ UNCHANGED <<segments, running, wpc, reused, cur, ret, todo>>
        /\ pc = "async_lock"
        /\ \/ UNCHANGED <<seg_to_write, pc>>
           \/ seg_to_write' = cur /\ pc' = "recheck"
    BY <1>10 DEF async_lock, cacheVars, writerVars
  <2>2. ret = "stream"
    BY <2>1 DEF ChunkLeft, AsyncPcs
  <2>3. UsePthreads /\ running
    BY <1>h, <1>r, <2>1 DEF Handoff, NoThreads, AsyncPcs
  <2> QED BY <1>0, <1>h, <2>1, <2>2, <2>3 DEF Handoff, WriterSegment, DirtyIsValid, CurInUse,
          Elsewhere, HandsOverComplete, NoThreads, WriterExit, AsyncPcs, SegPcs
<1>11. CASE flush_segment
  <2>1. /\ UNCHANGED <<seg_to_write, running, wpc, reused, ret, todo>> /\ pc = "valid"
    BY <1>11 DEF flush_segment, asyncVars, writerVars
  <2>2. CASE SegmentDone(FALSE)
    BY <2>1, <2>2, SegmentDoneHandoff DEF SegPcs
  <2>3. CASE ~SegmentDone(FALSE)
    <3>1. /\ segments' = [segments EXCEPT ![cur] = Merged(segments[cur])]
          /\ pc' = IF UsePthreads THEN "sync_check" ELSE "wr_begin"
          /\ cur' = cur
      BY <1>11, <2>3 DEF flush_segment
    <3>2. pc' \in {"sync_check", "wr_begin"} /\ (pc' = "wr_begin" => ~UsePthreads)
      BY <1>0, <3>1
    <3>3. pc' = "wr_begin" => seg_to_write # cur
      BY <1>0, <1>h, <3>2 DEF Handoff, NoThreads
    <3>4. \A t \in Slot : /\ segments'[t].in_use = segments[t].in_use
                          /\ segments'[t].valid = segments[t].valid \/ segments'[t].valid = Block
                          /\ segments'[t].dirty \subseteq segments'[t].valid
      BY <1>0, <1>h, <1>m, <3>1 DEF Handoff, DirtyIsValid
    <3>5. todo \subseteq Slot
      BY DEF MainTypes
    <3> QED BY <1>0, <1>h, <1>r, <2>1, <3>1, <3>2, <3>3, <3>4, <3>5 DEF Handoff, WriterSegment,
            DirtyIsValid, CurInUse, Elsewhere, HandsOverComplete, NoThreads, WriterExit,
            AsyncPcs, SegPcs
  <2> QED BY <2>2, <2>3
<1>12. CASE check_async_error
  <2>1. /\ UNCHANGED <<seg_to_write, running, wpc, reused, ret, todo>> /\ pc = "recheck"
        /\ SegmentDone(~Errored)
    BY <1>12 DEF check_async_error, asyncVars, writerVars
  <2>2. ret = "evict" => (seg_to_write # cur \/ reused)
    BY <1>h, <2>1 DEF Handoff, Elsewhere
  <2> QED BY <2>1, <2>2, SegmentDoneHandoff DEF SegPcs
<1>13. CASE sync_check
  <2>1. /\ UNCHANGED <<seg_to_write, running, wpc, reused, ret, todo>> /\ pc = "sync_check"
    BY <1>13 DEF sync_check, asyncVars, writerVars
  <2>2. CASE SegmentDone(FALSE)
    BY <2>1, <2>2, SegmentDoneHandoff DEF SegPcs
  <2>3. CASE ~SegmentDone(FALSE)
    <3>1. pc' = "sync_lock" /\ UNCHANGED <<segments, cur>>
      BY <1>13, <2>3 DEF sync_check, cacheVars
    <3> QED BY <1>k, <1>h, <1>r, <2>1, <3>1 DEF Handoff, CurInUse, Elsewhere, HandsOverComplete,
            AsyncPcs, SegPcs
  <2> QED BY <2>2, <2>3
\* The steps of a synchronous write: the segment is not the writer's.
<1>w. ASSUME wr_begin \/ wr_pwrite \/ wr_verify PROVE Handoff'
  <2>1. /\ UNCHANGED <<seg_to_write, running, wpc, reused, ret, todo>>
        /\ pc \in {"wr_begin", "wr_pwrite", "wr_verify"}
    BY <1>w DEF wr_begin, wr_pwrite, wr_verify, SyncFailed, asyncVars, writerVars
  <2>2. seg_to_write # cur \/ reused
    BY <1>h, <2>1 DEF Handoff, Elsewhere
  <2>3. \/ SegmentDone(TRUE) \/ SegmentDone(FALSE)
        \/ pc' \in {"wr_pwrite", "wr_verify"} /\ UNCHANGED <<segments, cur>>
    BY <1>w DEF wr_begin, wr_pwrite, wr_verify, SyncFailed, AfterPwrite, cacheVars
  <2>4. CASE SegmentDone(TRUE) \/ SegmentDone(FALSE)
    BY <2>1, <2>2, <2>4, SegmentDoneHandoff DEF SegPcs
  <2>5. CASE pc' \in {"wr_pwrite", "wr_verify"} /\ UNCHANGED <<segments, cur>>
    BY <1>k, <1>h, <1>r, <2>1, <2>2, <2>5 DEF Handoff, CurInUse, Elsewhere, HandsOverComplete,
       AsyncPcs, SegPcs
  <2> QED BY <2>3, <2>4, <2>5
<1> QED BY <1>1, <1>2, <1>3, <1>4, <1>5, <1>6, <1>7, <1>8, <1>9, <1>10, <1>11, <1>12,
           <1>13, <1>w DEF MainStep

\* Starting a call touches no segment.
LEMMA StartHandoff == IInv /\ StartCall => Handoff'
<1> SUFFICES ASSUME IInv, StartCall PROVE Handoff'
  OBVIOUS
<1>1. Handoff
  BY DEF IInv
<1>2. UNCHANGED <<segments, seg_to_write, wpc, reused, cur>> /\ pc = "idle"
  BY DEF StartCall, block_cache_pwrite, block_cache_pread, block_cache_trim, block_cache_reset,
     block_cache_flush, block_cache_free, Start, cacheVars, asyncVars, writerVars, histVars
<1>3. \/ pc' \in {"get", "drop"} /\ running' = running
      \/ pc' = "flush" /\ running' = running /\ todo' = Dirty(Slot)
      \/ pc' = "join" /\ running' = FALSE
  BY DEF StartCall, block_cache_pwrite, block_cache_pread, block_cache_trim, block_cache_reset,
     block_cache_flush, block_cache_free, Start, asyncVars
<1>4. \A s \in Dirty(Slot) : segments[s].in_use
  BY DEF Dirty, InUse
<1> QED BY <1>1, <1>2, <1>3, <1>4 DEF Handoff, WriterSegment, DirtyIsValid, CurInUse, Elsewhere,
        HandsOverComplete, NoThreads, WriterExit, AsyncPcs, SegPcs

\* The writer thread only ever gives its segment back, and exits last.
LEMMA WriterHandoff == IInv /\ WriterStep => Handoff'
<1> SUFFICES ASSUME IInv, WriterStep PROVE Handoff'
  OBVIOUS
<1>1. Handoff /\ cur \in Slot /\ NULL \notin Slot
  BY ConstAssumption DEF IInv, TypeOK, MainTypes, NULL, Slot
<1>2. UNCHANGED <<segments, reused, pc, cur, ret, todo>>
  BY DEF WriterStep, writer_top, writer_begin, writer_pwrite, writer_verify, writer_failed,
     writer_done, WriterUnchanged, cacheVars, mainVars, histVars
<1>3. UNCHANGED running /\ wpc # "exited"
  BY DEF WriterStep, writer_top, writer_begin, writer_pwrite, writer_verify, writer_failed,
     writer_done, asyncVars
<1>4. /\ seg_to_write' \in {seg_to_write, NULL}
      /\ wpc' = "exited" => ~running /\ seg_to_write' = NULL
  BY DEF WriterStep, writer_top, writer_begin, writer_pwrite, writer_verify, writer_failed,
     writer_done, AfterWriterPwrite, SkipAfterError, ExitOrWait, HasWork, asyncVars
<1> QED BY <1>1, <1>2, <1>3, <1>4 DEF Handoff, WriterSegment, DirtyIsValid, CurInUse, Elsewhere,
        HandsOverComplete, NoThreads, WriterExit, AsyncPcs, SegPcs

\* The inductive step of the hand-off.
LEMMA StepHandoff == IInv /\ [Next]_vars => IInv'
<1> SUFFICES ASSUME IInv, [Next]_vars PROVE IInv'
  OBVIOUS
<1>1. TypeOK' /\ ChunkLeft' /\ WriterHasSegment'
  BY StepTyped DEF IInv, TypeInv
<1>2. Handoff'
  <2>1. CASE SpuriousWakeup
    BY <2>1 DEF SpuriousWakeup, IInv, Handoff, WriterSegment, DirtyIsValid, CurInUse, Elsewhere,
       HandsOverComplete, NoThreads, WriterExit, cacheVars, mainVars, writerVars, histVars
  <2>2. CASE UNCHANGED vars
    BY <2>2 DEF vars, IInv, Handoff, WriterSegment, DirtyIsValid, CurInUse, Elsewhere,
       HandsOverComplete, NoThreads, WriterExit, cacheVars, asyncVars, mainVars, writerVars,
       histVars
  <2> QED BY <2>1, <2>2, StartHandoff, MainHandoff, WriterHandoff DEF Next, Freed
<1> QED BY <1>1, <1>2 DEF IInv

\* The cache starts with no slot in use and nothing handed over.
LEMMA InitHandoff == Init => IInv
<1> SUFFICES ASSUME Init PROVE IInv
  OBVIOUS
<1>1. TypeOK /\ ChunkLeft /\ WriterHasSegment
  BY InitTyped DEF TypeInv
<1>2. Handoff
  BY ConstAssumption DEF Init, Handoff, WriterSegment, DirtyIsValid, CurInUse, Elsewhere,
     HandsOverComplete, NoThreads, WriterExit, AsyncPcs, SegPcs
<1> QED BY <1>1, <1>2 DEF IInv

\* The rules of the hand-off hold throughout, for every number of slots,
\* segments, blocks and requests.
THEOREM HandoffCorrect == Spec => []IInv
<1> QED BY InitHandoff, StepHandoff, PTL DEF Spec

\* block_cache_free returns only when the writer thread has written, or given
\* up, the last segment it was handed.
THEOREM FreeDrainsAlways == Spec => []FreeDrains
<1>1. IInv => FreeDrains
  BY DEF IInv, Handoff, WriterExit, FreeDrains
<1> QED BY <1>1, HandoffCorrect, PTL

----------------------------------------------------------------------------
(* The main thread keeps off the segment the writer thread has             *)

\* Leaving the write of a segment changes flags only, unless the slot is
\* given away.
LEMMA SegmentDoneUntouched ==
  ASSUME IInv, NEW ok \in BOOLEAN, SegmentDone(ok), NEW s \in Slot, segments[s].in_use,
         (ret = "evict" /\ ok) => s # cur
  PROVE  Untouched(s)
<1>1. cur \in Slot /\ segments \in [Slot -> Segment]
  BY DEF IInv, TypeOK, CacheTypes, MainTypes
<1>2. CASE ret = "evict" /\ ok
  BY <1>1, <1>2 DEF SegmentDone, UseSlot, Untouched
<1>3. CASE ~(ret = "evict" /\ ok)
  <2>1. PICK seg \in {segments[cur], [segments[cur] EXCEPT !.dirty = {}],
                      [[segments[cur] EXCEPT !.dirty = {}] EXCEPT !.valid = Block]} :
          segments' = [segments EXCEPT ![cur] = seg]
    BY <1>1, <1>3 DEF SegmentDone
  <2>2. /\ seg.in_use = segments[cur].in_use
        /\ seg.offset = segments[cur].offset
        /\ seg.data = segments[cur].data
    BY <1>1 DEF Segment
  <2> QED BY <1>1, <2>1, <2>2 DEF Untouched
<1> QED BY <1>2, <1>3

\* Merging into a segment that is complete already changes none of its data.
LEMMA MergedComplete ==
  ASSUME NEW seg \in Segment
  PROVE  /\ Merged(seg).in_use = seg.in_use
         /\ Merged(seg).offset = seg.offset
         /\ seg.valid = Block => Merged(seg).data = seg.data
<1>1. seg.data = [b \in Block |-> seg.data[b]]
  BY DEF Segment
<1>2. seg.valid = Block =>
        [b \in Block |-> IF b \in seg.valid THEN seg.data[b] ELSE ReadSegment(seg.offset)[b]]
          = [b \in Block |-> seg.data[b]]
  OBVIOUS
<1>3. /\ Merged(seg).in_use = seg.in_use
      /\ Merged(seg).offset = seg.offset
      /\ Merged(seg).data =
           [b \in Block |-> IF b \in seg.valid THEN seg.data[b] ELSE ReadSegment(seg.offset)[b]]
  BY DEF Merged, Segment
<1> QED BY <1>1, <1>2, <1>3

\* One step of the main thread.
LEMMA MainUntouched ==
  ASSUME IInv, MainStep, NEW s \in Slot, seg_to_write = s, seg_to_write' = s, ~reused'
  PROVE  Untouched(s)
<1>0. /\ cur \in Slot /\ segments \in [Slot -> Segment] /\ NULL \notin Slot
      /\ Handoff
  BY ConstAssumption DEF IInv, TypeOK, CacheTypes, MainTypes, NULL, Slot
<1>1. CASE get_segment_miss
  <2>1. PICK t \in Slot :
          \/ /\ UseSlot(t, Initialized(t, Target.seg))
             /\ ~segments[t].in_use
          \/ /\ UseSlot(t, Initialized(t, Target.seg))
             /\ reused' = (reused \/ InFlight(t))
          \/ UNCHANGED segments
    BY <1>1 DEF get_segment_miss, InUse, Dirty
  <2>2. segments[s].in_use
    BY <1>0 DEF Handoff, WriterSegment
  <2>3. CASE UNCHANGED segments
    BY <2>2, <2>3 DEF Untouched
  <2>4. CASE UseSlot(t, Initialized(t, Target.seg)) /\ t # s
    BY <1>0, <2>2, <2>4 DEF UseSlot, Untouched
  <2>5. CASE reused' = (reused \/ InFlight(t))
    <3>1. t # s
      BY <2>5, Zenon DEF InFlight
    <3> QED BY <2>1, <2>2, <2>3, <2>4, <3>1
  <2> QED BY <2>1, <2>2, <2>3, <2>4, <2>5
<1>2. CASE ~get_segment_miss
  <2>1. UNCHANGED reused
    BY <1>2 DEF MainStep, get_segment_hit, block_segment_pwrite, block_segment_pread,
       FlushNext, flush_segment, DropSegment, TrimDone, ResetDone, FreeJoin,
       async_check, async_lock, check_async_error, sync_check, sync_lock, sync_wait,
       wr_begin, wr_pwrite, wr_verify, histVars
  <2>2. segments[s].in_use /\ segments[s].valid = Block
    BY <1>0, <2>1 DEF Handoff, WriterSegment
  <2>u. ASSUME NEW t \in Slot, t # s, NEW seg, segments' = [segments EXCEPT ![t] = seg]
        PROVE  Untouched(s)
    BY <1>0, <2>2, <2>u DEF Untouched
  <2>e. pc \in {"body", "wr_begin", "wr_pwrite", "wr_verify"} \/ (pc = "recheck" /\ ret # "stream")
          => cur # s
    BY <1>0, <2>1 DEF Handoff, Elsewhere
  <2>3. CASE get_segment_hit
    <3>1. PICK t \in Slot :
            \/ UNCHANGED segments
            \/ segments' = [segments EXCEPT ![t] = [segments[t] EXCEPT !.last_access = timestamp]]
      BY <2>3 DEF get_segment_hit, UseSlot, Cached, InUse
    <3>2. LET new == [segments[t] EXCEPT !.last_access = timestamp] IN
          /\ new.in_use = segments[t].in_use
          /\ new.offset = segments[t].offset
          /\ new.data = segments[t].data
      BY <1>0 DEF Segment
    <3> QED BY <1>0, <2>2, <3>1, <3>2 DEF Untouched
  <2>4. CASE block_segment_pwrite \/ block_segment_pread
    <3>1. pc = "body"
      BY <2>4 DEF block_segment_pwrite, block_segment_pread
    <3>2. UNCHANGED segments \/ \E seg : segments' = [segments EXCEPT ![cur] = seg]
      BY <2>4 DEF block_segment_pwrite, block_segment_pread
    <3> QED BY <1>0, <2>2, <2>u, <2>e, <3>1, <3>2 DEF Untouched
  <2>5. CASE flush_segment
    <3>1. CASE SegmentDone(FALSE)
      BY <2>2, <3>1, SegmentDoneUntouched
    <3>2. CASE ~SegmentDone(FALSE)
      <4>1. segments' = [segments EXCEPT ![cur] = Merged(segments[cur])]
        BY <2>5, <3>2 DEF flush_segment
      <4> QED BY <1>0, <2>2, <4>1, MergedComplete DEF Untouched
    <3> QED BY <3>1, <3>2
  <2>6. CASE DropSegment
    <3>1. PICK t \in todo : \/ UNCHANGED segments
                            \/ segments' = [segments EXCEPT ![t].in_use = FALSE] /\ t # s
      BY <2>6 DEF DropSegment, wait_for_write_completion, InFlight
    <3>2. t \in Slot
      BY DEF IInv, TypeOK, MainTypes
    <3> QED BY <1>0, <2>2, <3>1, <3>2 DEF Untouched
  <2>7. CASE FreeJoin
    BY <1>0, <2>7 DEF FreeJoin, Handoff, WriterExit
  <2>8. CASE FlushNext \/ TrimDone \/ ResetDone \/ async_check \/ async_lock \/ sync_lock \/ sync_wait
    <3>1. UNCHANGED segments
      BY <2>8 DEF FlushNext, TrimDone, ResetDone, async_check, async_lock, sync_lock, sync_wait,
         cacheVars
    <3> QED BY <2>2, <3>1 DEF Untouched
  <2>9. CASE check_async_error
    <3>1. SegmentDone(~Errored) /\ pc = "recheck"
      BY <2>9 DEF check_async_error
    <3> QED BY <2>2, <2>e, <3>1, SegmentDoneUntouched
  <2>10. CASE sync_check
    <3>1. SegmentDone(FALSE) \/ UNCHANGED segments
      BY <2>10 DEF sync_check, cacheVars
    <3> QED BY <2>2, <3>1, SegmentDoneUntouched DEF Untouched
  <2>11. CASE wr_begin \/ wr_pwrite \/ wr_verify
    <3>1. SegmentDone(TRUE) \/ SegmentDone(FALSE) \/ UNCHANGED segments
      BY <2>11 DEF wr_begin, wr_pwrite, wr_verify, SyncFailed, AfterPwrite, cacheVars
    <3>2. cur # s
      BY <2>e, <2>11 DEF wr_begin, wr_pwrite, wr_verify
    <3> QED BY <2>2, <3>1, <3>2, SegmentDoneUntouched DEF Untouched
  <2> QED BY <1>2, <2>3, <2>4, <2>5, <2>6, <2>7, <2>8, <2>9, <2>10, <2>11 DEF MainStep
<1> QED BY <1>1, <1>2

\* While the writer thread has a segment the main thread neither writes into
\* it nor moves it nor gives it up, but for the clean slot get_segment takes
\* without waiting.
THEOREM HandoffExclusive == Spec => UntouchedUnlessReused
<1> DEFINE Step == \A s \in Slot : (seg_to_write = s /\ seg_to_write' = s)
                                     => (Untouched(s) \/ reused')
<1>1. IInv /\ [Next]_vars => [Step]_vars
  <2> SUFFICES ASSUME IInv, [Next]_vars, NEW s \in Slot, seg_to_write = s, seg_to_write' = s,
                      ~reused'
               PROVE  Untouched(s) \/ UNCHANGED vars
    OBVIOUS
  <2>1. segments[s].in_use
    BY ConstAssumption DEF IInv, Handoff, WriterSegment, NULL, Slot
  <2>2. CASE MainStep
    BY <2>2, MainUntouched
  <2>3. CASE StartCall \/ WriterStep \/ SpuriousWakeup
    <3>1. UNCHANGED segments
      BY <2>3 DEF StartCall, block_cache_pwrite, block_cache_pread, block_cache_trim,
         block_cache_reset, block_cache_flush, block_cache_free, Start, WriterStep, writer_top,
         writer_begin, writer_pwrite, writer_verify, writer_failed, writer_done,
         WriterUnchanged, SpuriousWakeup, cacheVars
    <3> QED BY <2>1, <3>1 DEF Untouched
  <2> QED BY <2>2, <2>3 DEF Next, Freed
<1> QED BY <1>1, HandoffCorrect, PTL DEF Spec, UntouchedUnlessReused

----------------------------------------------------------------------------
(* Failures, for every build and every option: the inductive invariant     *)

\* Which call the main thread can be in, wherever it is.
WhichCall ==
  /\ pc \in {"get", "body"} => op.name \in {"pwrite", "pread"}
  /\ pc \in AsyncPcs => op.name = "pwrite"
  /\ pc \in SegPcs => \/ ret = "flush" /\ op.name = "flush"
                      \/ ret = "evict" /\ op.name \in {"pwrite", "pread"}
                      \/ ret = "stream" /\ op.name = "pwrite"
  /\ pc = "flush" => op.name = "flush"
  /\ pc = "drop" => op.name \in {"trim", "reset"}

\* block_cache_reset still has to visit every segment in use, the writer's too.
ResetVisits == (pc = "drop" /\ op.name = "reset") => todo = InUse(Slot)

\* The writer's segment is the one handed over last, and so is a failed one,
\* until do_async_write looks again.
LastHandedOver ==
  /\ seg_to_write # NULL /\ ~reused => segments[seg_to_write].offset = lastAsync
  /\ Errored /\ ~reported /\ ~reused =>
       bad_offset = lastAsync \/ (pc = "recheck" /\ ret = "stream")

\* The inductive invariant: the hand-off, who is in which call, and what is
\* known of a failure.
EInv == IInv /\ WhichCall /\ ResetVisits /\ ResetQuiesces /\ LastHandedOver

----------------------------------------------------------------------------
(* Where each step goes                                                    *)

\* Leaving the write of a segment goes back to the call that asked for it; a
\* failure is always reported.
LEMMA SegmentDoneCall ==
  ASSUME IInv, pc \in SegPcs, NEW ok \in BOOLEAN, SegmentDone(ok)
  PROVE  /\ op'.name = op.name
         /\ \/ ok /\ ret = "evict" /\ pc' = "body" /\ reported' = reported
            \/ ok /\ ret = "flush" /\ pc' = "flush" /\ reported' = reported
            \/ ok /\ ret = "stream" /\ pc' \in {"idle", "get"} /\ reported' = reported
            \/ ~ok /\ pc' = "idle" /\ reported'
<1>1. op \in Op /\ reported \in BOOLEAN /\ ret \in {"none", "evict", "flush", "stream"} /\ ret # "none"
  BY DEF IInv, TypeOK, MainTypes, HistTypes, ChunkLeft
<1> QED BY <1>1 DEF SegmentDone, UseSlot, NextChunk, Finish, Op

\* One step of the main thread: where it goes, and in which call.
LEMMA MainCall ==
  ASSUME IInv, WhichCall, MainStep
  PROVE  /\ WhichCall'
         /\ op'.name = op.name
         /\ pc' = "drop" => pc = "drop"
         /\ pc' = "idle" /\ op.name = "reset" => ResetDone
         /\ ~reported' => ~reported \/ ResetDone
<1>0. op \in Op /\ reported \in BOOLEAN /\ UsePthreads \in BOOLEAN
  BY ConstAssumption DEF IInv, TypeOK, MainTypes, HistTypes
<1>1. CASE get_segment_hit \/ get_segment_miss
  <2>1. /\ pc = "get" /\ UNCHANGED <<op, reported>>
        /\ pc' \in {"get", "body", "valid"} /\ (pc' = "valid" => ret' = "evict")
    BY <1>1 DEF get_segment_hit, get_segment_miss, UseSlot, histVars
  <2> QED BY <2>1 DEF WhichCall, SegPcs, AsyncPcs
<1>2. CASE block_segment_pwrite \/ block_segment_pread
  <2>1. /\ pc = "body" /\ op'.name = op.name
        /\ pc' \in {"idle", "get", "async_check", "wr_begin"}
        /\ pc' \in {"async_check", "wr_begin"} => ret' = "stream" /\ op.name = "pwrite"
        /\ ~reported' => ~reported
    BY <1>0, <1>2 DEF block_segment_pwrite, block_segment_pread, NextChunk, Finish, Op
  <2> QED BY <2>1 DEF WhichCall, SegPcs, AsyncPcs
<1>3. CASE FlushNext
  <2>1. /\ pc = "flush" /\ UNCHANGED op /\ pc' \in {"idle", "valid"}
        /\ pc' = "valid" => ret' = "flush"
        /\ ~reported' => ~reported
    BY <1>0, <1>3 DEF FlushNext, Finish
  <2> QED BY <2>1 DEF WhichCall, SegPcs, AsyncPcs
<1>4. CASE DropSegment \/ TrimDone \/ ResetDone \/ FreeJoin
  <2>1. /\ UNCHANGED op
        /\ pc' = "drop" => pc = "drop"
        /\ pc' \in {"drop", "idle", "freed"}
        /\ pc' = "idle" /\ op.name = "reset" => ResetDone
        /\ ~reported' => ~reported \/ ResetDone
    BY <1>0, <1>4 DEF DropSegment, TrimDone, ResetDone, FreeJoin, Finish, histVars
  <2> QED BY <2>1 DEF WhichCall, SegPcs, AsyncPcs
<1>5. CASE async_check \/ async_lock
  <2>1. /\ UNCHANGED <<op, ret>> /\ pc \in AsyncPcs /\ pc' \in {"idle", "recheck"} \cup AsyncPcs
        /\ ~reported' => ~reported
    BY <1>0, <1>5 DEF async_check, async_lock, Finish, AsyncPcs
  <2>2. ret = "stream"
    BY <2>1 DEF IInv, ChunkLeft
  <2> QED BY <2>1, <2>2 DEF WhichCall, SegPcs, AsyncPcs
<1>6. CASE flush_segment \/ check_async_error \/ sync_check \/ sync_lock \/ sync_wait
           \/ wr_begin \/ wr_pwrite \/ wr_verify
  <2>1. /\ UNCHANGED ret /\ pc \in SegPcs
        /\ \/ SegmentDone(TRUE) \/ SegmentDone(FALSE)
           \/ pc' \in SegPcs /\ UNCHANGED <<op, reported>>
    BY <1>0, <1>6 DEF flush_segment, check_async_error, sync_check, sync_lock, sync_wait, wr_begin,
       wr_pwrite, wr_verify, SyncFailed, AfterPwrite, Errored, histVars, SegPcs
  <2>2. CASE SegmentDone(TRUE) \/ SegmentDone(FALSE)
    <3>1. /\ op'.name = op.name /\ pc' \in {"idle", "get", "body", "flush"}
          /\ pc' \in {"get", "body"} => ret # "flush"
          /\ pc' = "flush" => ret = "flush"
          /\ ~reported' => ~reported
      <4>1. CASE SegmentDone(TRUE)
        BY <1>0, <2>1, <4>1, SegmentDoneCall
      <4>2. CASE SegmentDone(FALSE)
        BY <1>0, <2>1, <4>2, SegmentDoneCall
      <4> QED BY <2>2, <4>1, <4>2
    <3> QED BY <2>1, <3>1 DEF WhichCall, SegPcs, AsyncPcs
  <2>3. CASE pc' \in SegPcs /\ UNCHANGED <<op, reported>>
    BY <2>1, <2>3 DEF WhichCall, SegPcs, AsyncPcs
  <2> QED BY <2>1, <2>2, <2>3
<1> QED BY <1>1, <1>2, <1>3, <1>4, <1>5, <1>6 DEF MainStep

\* Starting a call.
LEMMA StartShape ==
  ASSUME StartCall
  PROVE  /\ UNCHANGED <<segments, timestamp, seg_to_write, bad_offset, cur, ret, wpc, woff, disk,
                        faults, damaged, reported, lastAsync, reused>>
         /\ pc = "idle"
         /\ \/ pc' = "get" /\ op'.name \in {"pwrite", "pread"} /\ UNCHANGED <<trimmed, logical>>
            \/ pc' = "drop" /\ op'.name = "trim" /\ block_cache_trim
            \/ /\ pc' = "drop" /\ op'.name = "reset" /\ todo' = InUse(Slot)
               /\ UNCHANGED <<trimmed, logical>>
            \/ /\ pc' = "flush" /\ op'.name = "flush" /\ todo' = Dirty(Slot)
               /\ UNCHANGED <<trimmed, logical>>
            \/ pc' = "join" /\ UNCHANGED <<op, trimmed, logical>>
<1> USE DEF Start, Call, cacheVars, asyncVars, writerVars, destVars, histVars
<1>1. CASE block_cache_pwrite
  BY <1>1 DEF block_cache_pwrite
<1>2. CASE block_cache_pread
  BY <1>2 DEF block_cache_pread
<1>3. CASE block_cache_trim
  <2>1. PICK r \in TrimReqs :
          Start([Call("trim", <<>>) EXCEPT !.discard = DiscardSegs(r.first, r.count)], "drop")
    BY <1>3 DEF block_cache_trim
  <2> QED BY <1>3, <2>1
<1>4. CASE block_cache_reset \/ block_cache_flush
  BY <1>4 DEF block_cache_reset, block_cache_flush
<1>5. CASE block_cache_free
  BY <1>5 DEF block_cache_free
<1> QED BY <1>1, <1>2, <1>3, <1>4, <1>5 DEF StartCall

\* What a step of the writer thread leaves alone.
LEMMA WriterShape ==
  ASSUME WriterStep
  PROVE  /\ UNCHANGED <<segments, timestamp, trimmed, pc, op, cur, ret, todo, ops, logical, reported,
                        lastAsync, reused>>
         /\ seg_to_write' \in {seg_to_write, NULL}
         /\ bad_offset' = bad_offset
              \/ (wpc = "failed" /\ bad_offset' = segments[seg_to_write].offset)
<1>1. UNCHANGED <<segments, timestamp, trimmed, pc, op, cur, ret, todo, ops, logical, reported,
                  lastAsync, reused>>
  BY DEF WriterStep, writer_top, writer_begin, writer_pwrite, writer_verify, writer_failed,
     writer_done, WriterUnchanged, cacheVars, mainVars, histVars
<1>2. /\ seg_to_write' \in {seg_to_write, NULL}
      /\ bad_offset' = bad_offset
           \/ (wpc = "failed" /\ bad_offset' = segments[seg_to_write].offset)
  BY DEF WriterStep, writer_top, writer_begin, writer_pwrite, writer_verify, writer_failed,
     writer_done, SkipAfterError, asyncVars
<1> QED BY <1>1, <1>2

----------------------------------------------------------------------------
(* Induction                                                               *)

\* The cache starts outside any call, with no failure.
LEMMA InitErrors == Init => EInv
<1> SUFFICES ASSUME Init PROVE EInv
  OBVIOUS
<1>1. WhichCall /\ ResetVisits /\ ResetQuiesces /\ LastHandedOver
  BY DEF Init, Call, WhichCall, ResetVisits, ResetQuiesces, LastHandedOver, Errored, AsyncPcs, SegPcs
<1> QED BY <1>1, InitHandoff DEF EInv

\* Starting a call.
LEMMA StartErrors == EInv /\ StartCall => EInv'
<1> SUFFICES ASSUME EInv, StartCall PROVE EInv'
  OBVIOUS
<1>1. IInv'
  BY StepHandoff DEF EInv, Next
<1>2. WhichCall' /\ ResetVisits' /\ ResetQuiesces' /\ LastHandedOver'
  <2>1. InUse(Slot)' = InUse(Slot)
    BY StartShape DEF InUse
  <2> QED BY <2>1, StartShape DEF EInv, WhichCall, ResetVisits, ResetQuiesces, LastHandedOver, Errored,
          AsyncPcs, SegPcs
<1> QED BY <1>1, <1>2 DEF EInv

\* A step of the main thread.  The failure of a synchronous write is reported
\* by the call that made it; a segment is handed over only when the one
\* before is done, and the call that does so looks at bad_offset once more.
LEMMA MainErrors == EInv /\ MainStep => EInv'
<1> SUFFICES ASSUME EInv, MainStep PROVE EInv'
  OBVIOUS
<1>0. /\ IInv /\ Handoff /\ NULL \notin Slot /\ seg_to_write \in Slot \cup {NULL}
      /\ segments \in [Slot -> Segment] /\ cur \in Slot
      /\ reported \in BOOLEAN /\ reused \in BOOLEAN
  BY ConstAssumption DEF EInv, IInv, TypeOK, AsyncTypes, CacheTypes, MainTypes, HistTypes, NULL, Slot
<1>1. IInv'
  BY StepHandoff DEF EInv, Next
<1>2. /\ WhichCall' /\ op'.name = op.name
      /\ pc' = "drop" => pc = "drop"
      /\ pc' = "idle" /\ op.name = "reset" => ResetDone
      /\ ~reported' => ~reported \/ ResetDone
  BY MainCall DEF EInv
<1>3. ResetVisits'
  <2> SUFFICES ASSUME pc = "drop", pc' = "drop", op.name = "reset" PROVE todo' = InUse(Slot)'
    BY <1>2 DEF ResetVisits
  <2>1. DropSegment
    BY DEF MainStep, get_segment_hit, get_segment_miss, block_segment_pwrite, block_segment_pread,
       FlushNext, flush_segment, TrimDone, ResetDone, FreeJoin, Finish, async_check, async_lock,
       check_async_error, sync_check, sync_lock, sync_wait, wr_begin, wr_pwrite, wr_verify
  <2>2. todo = InUse(Slot)
    BY DEF EInv, ResetVisits
  <2>3. PICK s \in todo : \/ UNCHANGED <<segments, todo>>
                          \/ /\ segments' = [segments EXCEPT ![s].in_use = FALSE]
                             /\ todo' = todo \ {s}
    BY <2>1 DEF DropSegment
  <2>4. CASE UNCHANGED <<segments, todo>>
    BY <2>2, <2>4 DEF InUse
  <2>5. CASE segments' = [segments EXCEPT ![s].in_use = FALSE] /\ todo' = todo \ {s}
    <3>1. \A t \in Slot : segments'[t].in_use = (segments[t].in_use /\ t # s)
      BY <1>0, <2>5 DEF Segment
    <3> QED BY <2>2, <2>5, <3>1 DEF InUse
  <2> QED BY <2>3, <2>4, <2>5
<1>4. ResetQuiesces'
  <2> SUFFICES ASSUME ResetDone PROVE seg_to_write' = NULL /\ bad_offset' = NULL
    BY <1>2 DEF ResetQuiesces, Errored
  <2>1. InUse(Slot) = {}
    BY DEF ResetDone, EInv, ResetVisits
  <2>2. seg_to_write = NULL
    BY <1>0, <2>1 DEF Handoff, WriterSegment, InUse
  <2> QED BY <2>2 DEF ResetDone
\* What the main thread does to bad_offset, to the hand-over and to lastAsync.
<1>5. /\ \/ async_lock /\ seg_to_write = NULL /\ seg_to_write' = cur
            /\ lastAsync' = segments[cur].offset
         \/ UNCHANGED <<seg_to_write, lastAsync>>
      /\ \/ UNCHANGED bad_offset
         \/ ResetDone /\ bad_offset' = NULL
         \/ pc \in SegPcs /\ SegmentDone(FALSE)
      /\ reused => reused'
  <2>1. /\ \/ async_lock /\ seg_to_write = NULL /\ seg_to_write' = cur
              /\ lastAsync' = segments[cur].offset
           \/ UNCHANGED <<seg_to_write, lastAsync>>
        /\ \/ UNCHANGED bad_offset
           \/ ResetDone /\ bad_offset' = NULL
           \/ pc \in SegPcs /\ SegmentDone(FALSE)
    BY DEF MainStep, get_segment_hit, get_segment_miss, block_segment_pwrite, block_segment_pread,
       FlushNext, flush_segment, DropSegment, TrimDone, ResetDone, FreeJoin, async_check, async_lock,
       check_async_error, sync_check, sync_lock, sync_wait, wr_begin, wr_pwrite, wr_verify,
       SyncFailed, asyncVars, histVars, SegPcs
  <2>2. reused => reused'
    BY <1>0 DEF MainStep, get_segment_hit, get_segment_miss, block_segment_pwrite, block_segment_pread,
       FlushNext, flush_segment, DropSegment, TrimDone, ResetDone, FreeJoin, async_check, async_lock,
       check_async_error, sync_check, sync_lock, sync_wait, wr_begin, wr_pwrite, wr_verify, histVars
  <2> QED BY <2>1, <2>2
<1>6. seg_to_write' # NULL /\ ~reused' => segments'[seg_to_write'].offset = lastAsync'
  <2>1. CASE async_lock /\ seg_to_write' = cur /\ lastAsync' = segments[cur].offset
    BY <2>1 DEF async_lock, cacheVars
  <2>2. CASE UNCHANGED <<seg_to_write, lastAsync>>
    <3> SUFFICES ASSUME seg_to_write # NULL, ~reused' PROVE segments'[seg_to_write].offset = lastAsync
      BY <2>2
    <3>1. seg_to_write \in Slot
      BY <1>0
    <3>2. segments'[seg_to_write].offset = segments[seg_to_write].offset
      BY <1>0, <2>2, <3>1, MainUntouched DEF Untouched
    <3> QED BY <1>5, <3>2 DEF EInv, LastHandedOver
  <2> QED BY <1>5, <2>1, <2>2
<1>7. Errored' /\ ~reported' /\ ~reused' =>
        bad_offset' = lastAsync' \/ (pc' = "recheck" /\ ret' = "stream")
  <2> SUFFICES ASSUME Errored', ~reported', ~reused'
               PROVE  bad_offset' = lastAsync' \/ (pc' = "recheck" /\ ret' = "stream")
    OBVIOUS
  <2>1. bad_offset' = bad_offset /\ ~ResetDone
    BY <1>0, <1>5, SegmentDoneCall DEF Errored, ResetDone
  <2>2. bad_offset = lastAsync \/ (pc = "recheck" /\ ret = "stream")
    BY <1>2, <1>5, <2>1 DEF EInv, LastHandedOver, Errored
  <2>3. ~(pc = "recheck" /\ ret = "stream")
    <3> SUFFICES ASSUME pc = "recheck" PROVE FALSE
      OBVIOUS
    <3>1. check_async_error
      BY DEF MainStep, get_segment_hit, get_segment_miss, block_segment_pwrite, block_segment_pread,
         FlushNext, flush_segment, DropSegment, TrimDone, ResetDone, FreeJoin, async_check, async_lock,
         sync_check, sync_lock, sync_wait, wr_begin, wr_pwrite, wr_verify
    <3>2. SegmentDone(FALSE)
      BY <2>1, <3>1, Zenon DEF check_async_error, Errored
    <3> QED BY <1>0, <3>2, SegmentDoneCall DEF SegPcs
  <2>4. CASE async_lock /\ seg_to_write = NULL /\ seg_to_write' = cur
    <3>1. pc' = "recheck" /\ ret' = ret
      BY <1>0, <2>4 DEF async_lock
    <3>2. ret = "stream"
      BY <1>0, <2>4 DEF async_lock, IInv, ChunkLeft, AsyncPcs
    <3> QED BY <3>1, <3>2
  <2> QED BY <1>5, <2>1, <2>2, <2>3, <2>4
<1> QED BY <1>1, <1>2, <1>3, <1>4, <1>6, <1>7 DEF EInv, LastHandedOver

\* A step of the writer thread: it fails on the segment it was given last, and
\* does nothing at all when it was given none.
LEMMA WriterErrors == EInv /\ WriterStep => EInv'
<1> SUFFICES ASSUME EInv, WriterStep PROVE EInv'
  OBVIOUS
<1>1. IInv'
  BY StepHandoff DEF EInv, Next
<1>2. /\ UNCHANGED <<segments, pc, op, cur, ret, todo, reported, lastAsync, reused>>
      /\ seg_to_write' \in {seg_to_write, NULL}
      /\ bad_offset' = bad_offset \/ (wpc = "failed" /\ bad_offset' = segments[seg_to_write].offset)
  BY WriterShape
<1>3. wpc = "failed" => seg_to_write # NULL
  BY DEF EInv, IInv, WriterHasSegment
<1>4. WhichCall' /\ ResetVisits'
  BY <1>2 DEF EInv, WhichCall, ResetVisits, InUse
<1>5. ResetQuiesces' /\ LastHandedOver'
  BY <1>2, <1>3 DEF EInv, ResetQuiesces, LastHandedOver, Errored
<1> QED BY <1>1, <1>4, <1>5 DEF EInv

\* The inductive step.
LEMMA StepErrors == EInv /\ [Next]_vars => EInv'
<1> SUFFICES ASSUME EInv, [Next]_vars PROVE EInv'
  OBVIOUS
<1>1. CASE SpuriousWakeup \/ UNCHANGED vars
  <2>1. IInv'
    BY <1>1, StepHandoff DEF EInv, Next
  <2>2. UNCHANGED <<segments, seg_to_write, bad_offset, pc, op, ret, todo, reported, lastAsync, reused>>
    BY <1>1 DEF SpuriousWakeup, vars, cacheVars, asyncVars, mainVars, histVars
  <2> QED BY <2>1, <2>2 DEF EInv, WhichCall, ResetVisits, ResetQuiesces, LastHandedOver, Errored, InUse
<1> QED BY <1>1, StartErrors, MainErrors, WriterErrors DEF Next, Freed

\* The inductive invariant about failures.
THEOREM ErrorInvariant == Spec => []EInv
<1> QED BY InitErrors, StepErrors, PTL DEF Spec

\* After block_cache_reset has returned the writer thread has nothing to do
\* and no failure is left over: the on-error handler starts on a quiet cache,
\* whatever the failed task left in flight.
THEOREM ResetLeavesQuiet == Spec => []ResetQuiesces
<1>1. EInv => ResetQuiesces
  BY DEF EInv
<1> QED BY <1>1, ErrorInvariant, PTL

\* Between calls the only failure nobody has been told of is that of the
\* segment do_async_write handed over last.
THEOREM UnreportedIsLast == Spec => []OnlyLastAsyncUnreported
<1>1. EInv => OnlyLastAsyncUnreported
  BY DEF EInv, LastHandedOver, OnlyLastAsyncUnreported
<1> QED BY <1>1, ErrorInvariant, PTL

----------------------------------------------------------------------------
(* The end of the media                                                    *)

\* Without a hardware trim only writes change the media, inside the blocks
\* calculate_io_size allows.
LEMMA DiskSteps ==
  ASSUME IInv, [Next]_vars, ~HwTrim
  PROVE  \/ UNCHANGED disk
         \/ \E off \in Segs, data \in [Block -> Value] :
              /\ disk' = [disk EXCEPT ![off] = Written(off, data)]
<1>0. /\ disk \in [Segs -> [Block -> Value]]
      /\ \A s \in Slot : segments[s].offset \in Segs /\ segments[s].data \in [Block -> Value]
      /\ cur \in Slot /\ woff \in Segs
  BY DEF IInv, TypeOK, DestTypes, CacheTypes, Segment, MainTypes, WriterTypes
<1>w. ASSUME NEW off \in Segs, NEW data \in [Block -> Value], pwrite_ok(off, data) \/ pwrite_bad(off, data)
      PROVE  \E d \in [Block -> Value] : disk' = [disk EXCEPT ![off] = Written(off, d)]
  <2>1. [b \in Block |-> Torn] \in [Block -> Value]
    BY DEF Value
  <2> QED BY <1>w, <2>1 DEF pwrite_ok, pwrite_bad, Damage
<1>1. CASE wr_pwrite
  <2>1. pwrite_ok(segments[cur].offset, segments[cur].data)
          \/ pwrite_bad(segments[cur].offset, segments[cur].data)
    BY <1>1 DEF wr_pwrite
  <2> QED BY <1>0, <1>w, <2>1
<1>2. CASE writer_pwrite
  <2>1. /\ seg_to_write \in Slot
        /\ \/ pwrite_ok(woff, segments[seg_to_write].data)
           \/ pwrite_bad(woff, segments[seg_to_write].data)
    BY <1>2 DEF writer_pwrite, IInv, TypeOK, AsyncTypes, WriterHasSegment
  <2> QED BY <1>0, <1>w, <2>1
<1>3. CASE TrimDone
  BY <1>0, <1>3 DEF TrimDone
<1>4. CASE StartCall
  BY <1>4, StartShape
<1>5. CASE MainStep /\ ~wr_pwrite /\ ~TrimDone
  BY <1>5 DEF MainStep, get_segment_hit, get_segment_miss, block_segment_pwrite, block_segment_pread,
     FlushNext, flush_segment, DropSegment, ResetDone, FreeJoin, async_check, async_lock,
     check_async_error, sync_check, sync_lock, sync_wait, wr_begin, wr_verify, destVars
<1>6. CASE (WriterStep /\ ~writer_pwrite) \/ SpuriousWakeup \/ UNCHANGED vars
  BY <1>6 DEF WriterStep, writer_top, writer_begin, writer_verify, writer_failed, writer_done,
     SpuriousWakeup, vars, destVars
<1> QED BY <1>1, <1>2, <1>3, <1>4, <1>5, <1>6 DEF Next, Freed

\* No write reaches a block past a hard end_offset, also not through a segment
\* that straddles it.  A hardware trim is a different matter: the device
\* is asked to drop more than the trimmed segments (README.md, section 6).
THEOREM PastEndKept == ASSUME ~HwTrim PROVE Spec => []PastEndUntouched
<1>0. B \in Nat /\ Segs \subseteq Nat /\ Block \subseteq Nat /\ EndOffset \in Nat
  BY ConstAssumption, FS_CardinalityType DEF B
<1>1. Init => PastEndUntouched
  BY DEF Init, PastEndUntouched
<1>2. IInv /\ PastEndUntouched /\ [Next]_vars => PastEndUntouched'
  <2> SUFFICES ASSUME IInv, PastEndUntouched, [Next]_vars, EndOffset > 0,
                      NEW off \in Segs, NEW x \in Block, off * B + x >= EndOffset
               PROVE  disk'[off][x] = Orig
    BY DEF PastEndUntouched
  <2>1. disk[off][x] = Orig
    BY DEF PastEndUntouched
  <2>2. disk \in [Segs -> [Block -> Value]]
    BY DEF IInv, TypeOK, DestTypes
  <2>3. ASSUME NEW o \in Segs, NEW data, disk' = [disk EXCEPT ![o] = Written(o, data)]
        PROVE  disk'[off][x] = Orig
    <3>1. x \notin IoBlocks(off)
      <4>1. off * B \in Nat
        BY <1>0
      <4> QED BY <1>0, <4>1 DEF IoBlocks
    <3>2. CASE o = off
      <4>1. disk'[off] = Written(off, data)
        BY <2>2, <2>3, <3>2
      <4> QED BY <2>1, <3>1, <4>1 DEF Written
    <3>3. CASE o # off
      BY <2>1, <2>2, <2>3, <3>3
    <3> QED BY <3>2, <3>3
  <2> QED BY <2>1, <2>3, DiskSteps
<1> QED BY <1>1, <1>2, HandoffCorrect, PTL DEF Spec

----------------------------------------------------------------------------
(* The data: the inductive invariant, in parts                             *)

\* A segment is cached once, and a slot is given away for one that is not.
Unique ==
  /\ \A s, t \in Slot : segments[s].in_use /\ segments[t].in_use
                        /\ segments[s].offset = segments[t].offset => s = t
  /\ pc \in SegPcs /\ ret = "evict" =>
       \A s \in Slot : segments[s].in_use => segments[s].offset # Target.seg

\* What a flush or a write works on is dirty, and complete before it is written.
CurDirty ==
  /\ pc \in SegPcs => segments[cur].dirty # {}
  /\ pc = "flush" \/ (pc \in SegPcs /\ ret = "flush") => \A s \in todo : segments[s].dirty # {}
  /\ pc \in AsyncPcs \/ (pc \in SegPcs /\ ret = "stream") => segments[cur].dirty = Block
  /\ pc \in SegPcs \ {"valid"} => segments[cur].valid = Block
  /\ pc \in {"wr_pwrite", "wr_verify"} => ~PastEnd(segments[cur].offset)

\* block_cache_flush visits every dirty segment once, in the order of last_access.
FlushVisits ==
  /\ pc = "flush" => Dirty(Slot) \subseteq todo
  /\ pc \in SegPcs /\ ret = "flush" =>
       /\ Dirty(Slot) \subseteq todo \cup {cur} /\ cur \notin todo
       /\ \A s \in todo : segments[cur].last_access <= segments[s].last_access
  /\ op.name = "flush" /\ ~reported /\ pc \in {"idle", "join"} => Dirty(Slot) = {}

\* Without threads bad_offset is never set and no slot is reused too early.
NoThreadError ==
  ~UsePthreads => /\ ~Errored /\ ~reused
                  /\ pc \notin {"sync_check", "sync_lock", "sync_wait", "recheck"}

\* The structure of the cache and of a flush, failures or not.
SInv == Unique /\ CurDirty /\ FlushVisits /\ NoThreadError

\* No call has failed since the last reset, none is being thrown away by a
\* reset or by block_cache_free, and no slot was reused under the writer.
Quiet == ~reported /\ ~reused /\ pc # "freed" /\ ~(pc = "drop" /\ op.name = "reset")

\* A slot block_cache_trim is about to give back.
Dropping(s) == pc = "drop" /\ s \in todo

OnMedia(s) == SameOnDisk(segments[s].offset, segments[s].data)

\* A clean segment is completely valid, unless get_segment has just made it.
CleanIsValid ==
  \A s \in InUse(Slot) : \/ segments[s].dirty # {} \/ segments[s].valid = Block
                         \/ pc = "body" /\ s = cur

\* The segment in the writer's hands.
Flight == seg_to_write # NULL =>
  /\ segments[seg_to_write].dirty # {} => pc = "recheck" /\ ret = "stream" /\ cur = seg_to_write
  /\ segments[seg_to_write].dirty = {} =>
       segments[seg_to_write].offset \notin trimmed \/ Dropping(seg_to_write)
  /\ wpc \in {"pwrite", "verify"} => woff = segments[seg_to_write].offset
  /\ wpc = "top" /\ Errored => pc = "recheck" /\ ret = "stream"
  /\ wpc \in {"begin", "pwrite", "verify", "failed"} => ~Errored
  /\ wpc = "verify" => (OnMedia(seg_to_write) <=> segments[seg_to_write].offset \notin damaged)
  /\ wpc \in {"failed", "done"} =>
       OnMedia(seg_to_write) \/ segments[seg_to_write].offset \in damaged
  /\ wpc = "done" => OnMedia(seg_to_write) \/ Errored

\* The segment the main thread waits for or writes.
MainWrites ==
  /\ pc # "sync_wait"
  /\ pc = "recheck" => /\ ret = "stream" /\ seg_to_write \in {cur, NULL}
                       /\ seg_to_write = NULL /\ ~Errored => OnMedia(cur)
  /\ pc \in {"sync_lock", "wr_begin", "wr_pwrite"} => segments[cur].offset \notin damaged
  /\ pc = "wr_verify" => (OnMedia(cur) <=> segments[cur].offset \notin damaged)

\* A damaged segment has set bad_offset, or is about to.
DamageKnown == \A off \in damaged :
  \/ Errored
  \/ /\ seg_to_write # NULL /\ segments[seg_to_write].offset = off
     /\ wpc \in {"verify", "failed"}
  \/ pc = "wr_verify" /\ segments[cur].offset = off

\* A trim has marked what it drops.
TrimZero == pc = "drop" =>
  \A s \in todo : /\ segments[s].in_use /\ segments[s].offset \in trimmed
                  /\ \A x \in Block : logical[segments[s].offset][x] = Zero

\* What the cache holds is what was written last, but for clean blocks read
\* back from a damaged segment.
DataRight == \A s \in InUse(Slot) : ~Dropping(s) =>
  \A x \in segments[s].valid \cap IoBlocks(segments[s].offset) :
     \/ segments[s].data[x] = logical[segments[s].offset][x]
     \/ /\ segments[s].offset \in damaged /\ x \notin segments[s].dirty
        /\ s # seg_to_write /\ ~(pc = "wr_verify" /\ s = cur)

\* Where nothing is dirty or being written, the media holds it too.
DiskRight == \A off \in Segs \ damaged : \A x \in IoBlocks(off) :
  \/ ReadSegment(off)[x] = logical[off][x]
  \/ \E s \in InUse(Slot) : /\ segments[s].offset = off
                            /\ x \in segments[s].dirty \/ s = seg_to_write

\* What was written behind the end is dirty until a flush refuses it.
PastEndDirty == ~UsePthreads => \A off \in Segs : PastEnd(off) =>
  \/ \A x \in Block : logical[off][x] = Zero
  \/ \E s \in Dirty(Slot) : segments[s].offset = off

\* What is known of the data while nothing has failed.
DCore == /\ CleanIsValid /\ Flight /\ MainWrites /\ DamageKnown /\ TrimZero /\ DataRight
         /\ DiskRight /\ PastEndDirty
DInv  == EInv /\ SInv /\ (Quiet => DCore)

----------------------------------------------------------------------------
(* What the steps do to a slot                                             *)

\* Everything in slot t but its place in the LRU order stays.
Kept(t) == /\ segments'[t].in_use = segments[t].in_use
           /\ segments'[t].offset = segments[t].offset
           /\ segments'[t].data = segments[t].data
           /\ segments'[t].valid = segments[t].valid
           /\ segments'[t].dirty = segments[t].dirty

\* The ranges the proofs need.
LEMMA Ranges ==
  ASSUME IInv
  PROVE  /\ segments \in [Slot -> Segment] /\ cur \in Slot /\ todo \subseteq Slot
         /\ seg_to_write \in Slot \cup {NULL} /\ NULL \notin Slot
         /\ disk \in [Segs -> [Block -> Value]] /\ logical \in [Segs -> [Block -> Value]]
         /\ timestamp \in Nat /\ trimmed \subseteq Segs /\ damaged \subseteq Segs
         /\ op \in Op /\ reported \in BOOLEAN /\ reused \in BOOLEAN /\ UsePthreads \in BOOLEAN
         /\ \A s \in Slot : /\ segments[s].offset \in Segs
                            /\ segments[s].data \in [Block -> Value]
                            /\ segments[s].valid \subseteq Block
                            /\ segments[s].dirty \subseteq segments[s].valid
                            /\ segments[s].in_use \in BOOLEAN
                            /\ segments[s].last_access \in Nat
<1>1. /\ segments \in [Slot -> Segment] /\ cur \in Slot /\ todo \subseteq Slot
      /\ seg_to_write \in Slot \cup {NULL}
      /\ disk \in [Segs -> [Block -> Value]] /\ logical \in [Segs -> [Block -> Value]]
      /\ timestamp \in Nat /\ trimmed \subseteq Segs /\ damaged \subseteq Segs
      /\ op \in Op /\ reported \in BOOLEAN /\ reused \in BOOLEAN
  BY DEF IInv, TypeOK, CacheTypes, AsyncTypes, MainTypes, DestTypes, HistTypes
<1>2. NULL \notin Slot /\ UsePthreads \in BOOLEAN
  BY ConstAssumption DEF NULL, Slot
<1>3. \A s \in Slot : segments[s].dirty \subseteq segments[s].valid
  BY DEF IInv, Handoff, DirtyIsValid
<1> QED BY <1>1, <1>2, <1>3 DEF Segment

\* The new contents of a slot.
LEMMA NewSlots ==
  ASSUME IInv, NEW s \in Slot
  PROVE  /\ \A off \in Segs : /\ Initialized(s, off).in_use /\ Initialized(s, off).offset = off
                              /\ Initialized(s, off).valid = {} /\ Initialized(s, off).dirty = {}
         /\ LET m == Merged(segments[s]) IN
            /\ m.in_use = segments[s].in_use /\ m.offset = segments[s].offset
            /\ m.last_access = segments[s].last_access
            /\ m.valid = Block /\ m.dirty = segments[s].dirty
            /\ \A x \in Block : m.data[x] = IF x \in segments[s].valid THEN segments[s].data[x]
                                            ELSE ReadSegment(segments[s].offset)[x]
<1>1. segments[s] \in Segment
  BY Ranges
<1> QED BY <1>1 DEF Initialized, Merged, Segment

\* Leaving the write of a segment: the slot is given away, marked clean, or
\* left alone.
LEMMA DoneFields ==
  ASSUME IInv, pc \in SegPcs, NEW ok \in BOOLEAN, SegmentDone(ok)
  PROVE  /\ cur' = cur
         /\ \A t \in Slot \ {cur} : segments'[t] = segments[t]
         /\ ok /\ ret = "evict" =>
              /\ segments'[cur].in_use /\ segments'[cur].offset = Target.seg
              /\ segments'[cur].valid = {} /\ segments'[cur].dirty = {}
              /\ op' = op /\ Target.seg \in Segs
         /\ ~(ok /\ ret = "evict") =>
              /\ segments'[cur].in_use = segments[cur].in_use
              /\ segments'[cur].offset = segments[cur].offset
              /\ segments'[cur].data = segments[cur].data
              /\ segments'[cur].last_access = segments[cur].last_access
         /\ ok /\ ret = "flush" => /\ segments'[cur].dirty = {}
                                   /\ segments'[cur].valid = segments[cur].valid
         /\ ok /\ ret = "stream" => segments'[cur].dirty = {} /\ segments'[cur].valid = Block
         /\ ok => trimmed' = trimmed \ {segments[cur].offset}
<1>0. /\ segments \in [Slot -> Segment] /\ cur \in Slot /\ segments[cur] \in Segment
      /\ ret \in {"evict", "flush", "stream"}
  BY Ranges DEF IInv, TypeOK, MainTypes, ChunkLeft
<1>1. CASE ok /\ ret = "evict"
  <2>1. Target.seg \in Segs
    BY <1>1, TargetTyped DEF IInv, TypeOK, ChunkLeft
  <2>2. /\ segments' = [segments EXCEPT ![cur] = Initialized(cur, Target.seg)]
        /\ cur' = cur /\ op' = op /\ trimmed' = trimmed \ {segments[cur].offset}
    BY <1>1 DEF SegmentDone, UseSlot
  <2> QED BY <1>0, <1>1, <2>1, <2>2, NewSlots
<1>2. CASE ok /\ ret = "flush"
  BY <1>0, <1>2 DEF SegmentDone, Segment
<1>3. CASE ok /\ ret = "stream"
  <2>1. /\ cur' = cur /\ trimmed' = trimmed \ {segments[cur].offset}
        /\ segments' = [segments EXCEPT ![cur] =
                          [[segments[cur] EXCEPT !.dirty = {}] EXCEPT !.valid = Block]]
    BY <1>3 DEF SegmentDone
  <2> DEFINE new == [[segments[cur] EXCEPT !.dirty = {}] EXCEPT !.valid = Block]
  <2>2. /\ new.in_use = segments[cur].in_use /\ new.offset = segments[cur].offset
        /\ new.data = segments[cur].data /\ new.last_access = segments[cur].last_access
        /\ new.dirty = {} /\ new.valid = Block
    BY <1>0 DEF Segment
  <2> HIDE DEF new
  <2>3. segments'[cur] = new /\ \A t \in Slot \ {cur} : segments'[t] = segments[t]
    BY <1>0, <2>1 DEF new
  <2> QED BY <1>0, <1>3, <2>1, <2>2, <2>3
<1>4. CASE ~ok
  BY <1>0, <1>4 DEF SegmentDone, Segment
<1> QED BY <1>0, <1>1, <1>2, <1>3, <1>4

\* A hit changes the LRU order only.
LEMMA HitShape ==
  ASSUME IInv, get_segment_hit
  PROVE  /\ \A t \in Slot : Kept(t)
         /\ pc = "get" /\ pc' \in {"get", "body"}
         /\ UNCHANGED <<trimmed, seg_to_write, bad_offset, op, ret, todo, wpc, woff, disk, damaged,
                        logical, reported, reused>>
<1>1. /\ pc = "get"
      /\ UNCHANGED <<trimmed, seg_to_write, bad_offset, op, ret, todo, wpc, woff, disk, damaged,
                     logical, reported, reused>>
  BY DEF get_segment_hit, writerVars, destVars, histVars
<1>2. PICK s \in Slot :
        \/ UNCHANGED <<segments, pc>>
        \/ /\ segments' = [segments EXCEPT ![s] = [segments[s] EXCEPT !.last_access = timestamp]]
           /\ pc' = "body"
  BY DEF get_segment_hit, UseSlot, Cached, InUse
<1>3. segments \in [Slot -> Segment]
  BY Ranges
<1> QED BY <1>1, <1>2, <1>3 DEF Kept, Segment

\* A miss takes an unused or clean slot, or starts to evict a dirty one.
LEMMA MissShape ==
  ASSUME IInv, get_segment_miss
  PROVE  /\ pc = "get"
         /\ UNCHANGED <<trimmed, seg_to_write, bad_offset, op, todo, wpc, woff, disk, damaged, logical,
                        reported>>
         /\ \A t \in Slot : segments[t].in_use => segments[t].offset # Target.seg
         /\ cur' \in Slot /\ Target.seg \in Segs
         /\ \A t \in Slot \ {cur'} : segments'[t] = segments[t]
         /\ \/ /\ pc' = "valid" /\ ret' = "evict" /\ UNCHANGED <<segments, reused>>
               /\ segments[cur'].in_use /\ segments[cur'].dirty # {}
            \/ /\ pc' = "body" /\ ret' = ret
               /\ ~segments[cur'].in_use \/ segments[cur'].dirty = {}
               /\ reused => reused'
               /\ reused' \/ seg_to_write # cur'
               /\ seg_to_write = NULL /\ ~reused => ~reused'
               /\ segments'[cur'].in_use /\ segments'[cur'].offset = Target.seg
               /\ segments'[cur'].valid = {} /\ segments'[cur'].dirty = {}
<1>0. /\ segments \in [Slot -> Segment] /\ reused \in BOOLEAN /\ NULL \notin Slot
      /\ pc = "get" /\ Target.seg \in Segs
  BY Ranges, TargetTyped DEF IInv, TypeOK, ChunkLeft, get_segment_miss
<1>1. /\ UNCHANGED <<trimmed, seg_to_write, bad_offset, op, todo, wpc, woff, disk, damaged, logical,
                     reported>>
      /\ \A t \in Slot : segments[t].in_use => segments[t].offset # Target.seg
  BY DEF get_segment_miss, Cached, InUse, asyncVars, writerVars, destVars
<1>2. PICK s \in Slot :
        \/ /\ UseSlot(s, Initialized(s, Target.seg)) /\ ret' = ret
           /\ ~segments[s].in_use
           /\ reused' = reused
        \/ /\ UseSlot(s, Initialized(s, Target.seg)) /\ ret' = ret
           /\ segments[s].dirty = {}
           /\ reused' = (reused \/ InFlight(s))
        \/ /\ cur' = s /\ pc' = "valid" /\ ret' = "evict" /\ segments[s].in_use
           /\ segments[s].dirty # {}
           /\ UNCHANGED <<segments, reused>>
  BY DEF get_segment_miss, InUse, Dirty
<1>3. CASE UseSlot(s, Initialized(s, Target.seg)) /\ ret' = ret
  <2>1. /\ segments' = [segments EXCEPT ![s] = Initialized(s, Target.seg)]
        /\ cur' = s /\ pc' = "body"
    BY <1>3 DEF UseSlot
  <2>2. ~segments[s].in_use => seg_to_write # s
    BY <1>0 DEF IInv, Handoff, WriterSegment
  <2>3. /\ ~segments[s].in_use \/ segments[s].dirty = {}
        /\ reused => reused'
        /\ reused' \/ seg_to_write # s
        /\ seg_to_write = NULL /\ ~reused => ~reused'
    <3>1. CASE ~segments[s].in_use /\ reused' = reused
      BY <1>0, <2>2, <3>1
    <3>2. CASE segments[s].dirty = {} /\ reused' = (reused \/ InFlight(s))
      <4>1. CASE InFlight(s)
        BY <1>0, <3>2, <4>1 DEF InFlight
      <4>2. CASE ~InFlight(s)
        BY <1>0, <3>2, <4>2 DEF InFlight
      <4> QED BY <4>1, <4>2
    <3> QED BY <1>2, <2>1, <3>1, <3>2
  <2> QED BY <1>0, <1>1, <1>3, <2>1, <2>3, NewSlots
<1>4. CASE /\ cur' = s /\ pc' = "valid" /\ ret' = "evict" /\ segments[s].in_use
           /\ segments[s].dirty # {}
           /\ UNCHANGED <<segments, reused>>
  BY <1>0, <1>1, <1>4
<1> QED BY <1>2, <1>3, <1>4

\* block_segment_pwrite copies the chunk into the current segment.
LEMMA CopyShape ==
  ASSUME IInv, block_segment_pwrite
  PROVE  LET off == segments[cur].offset IN
         /\ pc = "body" /\ cur' = cur
         /\ UNCHANGED <<trimmed, seg_to_write, bad_offset, todo, wpc, woff, disk, damaged, reused>>
         /\ \A t \in Slot \ {cur} : segments'[t] = segments[t]
         /\ segments'[cur].in_use = segments[cur].in_use /\ segments'[cur].offset = off
         /\ Target.blocks # {} /\ Target.blocks \subseteq Block
         /\ segments'[cur].valid = segments[cur].valid \cup Target.blocks
         /\ segments'[cur].dirty = segments[cur].dirty \cup Target.blocks
         /\ \A x \in Block : segments'[cur].data[x] = IF x \in Target.blocks THEN op.val
                                                      ELSE segments[cur].data[x]
         /\ \A o \in Segs : \A x \in Block :
              logical'[o][x] = IF o = off /\ x \in Target.blocks THEN op.val ELSE logical[o][x]
         /\ op'.name = op.name /\ op.name = "pwrite"
         /\ \/ pc' \in {"idle", "get"} /\ reported' = reported
            \/ /\ segments'[cur].dirty = Block /\ ret' = "stream" /\ reported' = reported
               /\ pc' = IF UsePthreads THEN "async_check" ELSE "wr_begin"
<1> DEFINE seg == Copied(segments[cur])
           fin == [seg EXCEPT !.streamed = @ /\ op.streamed]
<1>0. /\ segments \in [Slot -> Segment] /\ cur \in Slot /\ segments[cur] \in Segment
      /\ logical \in [Segs -> [Block -> Value]] /\ segments[cur].offset \in Segs
      /\ reported \in BOOLEAN /\ op \in Op
  BY Ranges
<1>1. /\ pc = "body" /\ cur' = cur /\ op.name = "pwrite"
      /\ UNCHANGED <<trimmed, seg_to_write, bad_offset, todo, wpc, woff, disk, damaged, reused>>
      /\ op.chunks # <<>>
  BY DEF block_segment_pwrite, asyncVars, writerVars, destVars, IInv, ChunkLeft
<1>2. Target.blocks # {} /\ Target.blocks \subseteq Block
  <2>1. op.chunks \in Seq(Chunk)
    BY <1>0 DEF Op
  <2>2. Head(op.chunks) \in Chunk
    BY <1>1, <2>1
  <2> QED BY <2>2 DEF Target, Chunk
<1>3. /\ seg \in Segment
      /\ seg.in_use = segments[cur].in_use /\ seg.offset = segments[cur].offset
      /\ seg.valid = segments[cur].valid \cup Target.blocks
      /\ seg.dirty = segments[cur].dirty \cup Target.blocks
      /\ \A x \in Block : seg.data[x] = IF x \in Target.blocks THEN op.val
                                        ELSE segments[cur].data[x]
  BY <1>0, <1>1, CopiedTyped DEF Copied, Segment, IInv
<1>4. \A o \in Segs : \A x \in Block :
        logical'[o][x] = IF o = segments[cur].offset /\ x \in Target.blocks THEN op.val
                         ELSE logical[o][x]
  BY <1>0 DEF block_segment_pwrite
<1>5. CASE StreamOut(seg)
  <2>1. /\ segments' = [segments EXCEPT ![cur] = seg] /\ ret' = "stream" /\ UNCHANGED <<op, reported>>
        /\ pc' = IF UsePthreads THEN "async_check" ELSE "wr_begin"
    BY <1>5 DEF block_segment_pwrite
  <2>2. seg.dirty = Block
    BY <1>5 DEF StreamOut
  <2> HIDE DEF seg
  <2> QED BY <1>0, <1>1, <1>2, <1>3, <1>4, <2>1, <2>2
<1>6. CASE ~StreamOut(seg)
  <2>1. segments' = [segments EXCEPT ![cur] = fin] /\ NextChunk
    BY <1>6 DEF block_segment_pwrite
  <2>2. pc' \in {"idle", "get"} /\ reported' = reported /\ op'.name = op.name
    BY <1>0, <2>1 DEF NextChunk, Finish, Op
  <2> HIDE DEF seg
  <2>3. /\ fin.in_use = seg.in_use /\ fin.offset = seg.offset /\ fin.valid = seg.valid
        /\ fin.dirty = seg.dirty /\ fin.data = seg.data
    BY <1>3 DEF Segment
  <2> HIDE DEF fin
  <2> QED BY <1>0, <1>1, <1>2, <1>3, <1>4, <2>1, <2>2, <2>3
<1> QED BY <1>5, <1>6

\* make_segment_valid merges what is missing into the current segment.
LEMMA MergeShape ==
  ASSUME IInv, block_segment_pread \/ flush_segment
  PROVE  /\ UNCHANGED <<seg_to_write, bad_offset, ret, todo, wpc, woff, disk, damaged, logical, reused>>
         /\ \/ /\ cur' = cur /\ UNCHANGED <<trimmed, reported>>
               /\ \A t \in Slot \ {cur} : segments'[t] = segments[t]
               /\ segments'[cur].in_use = segments[cur].in_use
               /\ segments'[cur].offset = segments[cur].offset
               /\ segments'[cur].last_access = segments[cur].last_access
               /\ segments'[cur].valid = Block /\ segments'[cur].dirty = segments[cur].dirty
               /\ \A x \in Block : segments'[cur].data[x] =
                    IF x \in segments[cur].valid THEN segments[cur].data[x]
                    ELSE ReadSegment(segments[cur].offset)[x]
               /\ \/ /\ pc = "body" /\ pc' \in {"idle", "get"} /\ op.name = "pread"
                     /\ op'.name = op.name
                  \/ /\ pc = "valid" /\ pc' = IF UsePthreads THEN "sync_check" ELSE "wr_begin"
                     /\ op' = op
            \/ reported' /\ pc' = "idle" /\ pc = "body" /\ UNCHANGED segments
            \/ reported' /\ pc' = "idle" /\ pc = "valid" /\ SegmentDone(FALSE)
<1>0. /\ segments \in [Slot -> Segment] /\ cur \in Slot /\ reported \in BOOLEAN /\ op \in Op
  BY Ranges
<1>1. UNCHANGED <<seg_to_write, bad_offset, ret, todo, wpc, woff, disk, damaged, logical, reused>>
  BY DEF block_segment_pread, flush_segment, asyncVars, writerVars
<1>2. CASE block_segment_pread
  <2>1. /\ pc = "body" /\ cur' = cur /\ UNCHANGED trimmed /\ op.name = "pread"
        /\ \/ segments' = [segments EXCEPT ![cur] = Merged(segments[cur])] /\ NextChunk
           \/ Finish("error") /\ UNCHANGED segments
    BY <1>2 DEF block_segment_pread
  <2>2. CASE segments' = [segments EXCEPT ![cur] = Merged(segments[cur])] /\ NextChunk
    <3>1. pc' \in {"idle", "get"} /\ reported' = reported /\ op'.name = op.name
      BY <1>0, <2>2 DEF NextChunk, Finish, Op
    <3> QED BY <1>0, <1>1, <2>1, <2>2, <3>1, NewSlots
  <2> QED BY <1>1, <2>1, <2>2 DEF Finish
<1>3. CASE flush_segment
  <2>1. /\ pc = "valid"
        /\ \/ /\ segments' = [segments EXCEPT ![cur] = Merged(segments[cur])]
              /\ pc' = IF UsePthreads THEN "sync_check" ELSE "wr_begin"
              /\ UNCHANGED <<trimmed, op, cur, reported>>
           \/ SegmentDone(FALSE)
    BY <1>3 DEF flush_segment
  <2>2. CASE SegmentDone(FALSE)
    BY <1>1, <2>1, <2>2, SegmentDoneCall DEF SegPcs
  <2>3. CASE ~SegmentDone(FALSE)
    <3>1. /\ segments' = [segments EXCEPT ![cur] = Merged(segments[cur])]
          /\ pc' = IF UsePthreads THEN "sync_check" ELSE "wr_begin"
          /\ UNCHANGED <<trimmed, op, cur, reported>>
      BY <2>1, <2>3
    <3>2. segments'[cur] = Merged(segments[cur]) /\ \A t \in Slot \ {cur} : segments'[t] = segments[t]
      BY <1>0, <3>1
    <3> QED BY <1>0, <1>1, <2>1, <3>1, <3>2, NewSlots
  <2> QED BY <2>2, <2>3
<1> QED BY <1>2, <1>3

\* block_cache_trim and block_cache_reset give a slot back, or wait.
LEMMA DropShape ==
  ASSUME IInv, DropSegment
  PROVE  /\ pc = "drop"
         /\ UNCHANGED <<trimmed, seg_to_write, bad_offset, pc, op, cur, ret, wpc, woff, disk, damaged,
                        logical, reported, reused>>
         /\ \/ UNCHANGED <<segments, todo>>
            \/ \E s \in todo : /\ todo' = todo \ {s} /\ s # seg_to_write
                               /\ ~segments'[s].in_use
                               /\ \A t \in Slot \ {s} : segments'[t] = segments[t]
<1>1. /\ pc = "drop"
      /\ UNCHANGED <<trimmed, seg_to_write, bad_offset, pc, op, cur, ret, wpc, woff, disk, damaged,
                     logical, reported, reused>>
  BY DEF DropSegment, writerVars, destVars, histVars
<1>2. PICK s \in todo : \/ UNCHANGED <<segments, todo>>
                        \/ /\ segments' = [segments EXCEPT ![s].in_use = FALSE]
                           /\ todo' = todo \ {s} /\ s # seg_to_write
  BY DEF DropSegment, wait_for_write_completion, InFlight
<1>3. segments \in [Slot -> Segment] /\ s \in Slot
  BY Ranges
<1> QED BY <1>1, <1>2, <1>3 DEF Segment

\* The steps of a write that touch no segment.
LEMMA WriteShape ==
  ASSUME IInv, sync_check \/ sync_lock \/ sync_wait \/ wr_begin \/ wr_pwrite \/ wr_verify
               \/ check_async_error
  PROVE  /\ UNCHANGED <<seg_to_write, ret, todo, wpc, woff, logical, reused>> /\ pc \in SegPcs
         /\ \/ SegmentDone(TRUE) /\ UNCHANGED bad_offset
            \/ SegmentDone(FALSE) /\ (~UsePthreads => UNCHANGED bad_offset)
            \/ UNCHANGED <<segments, trimmed, bad_offset, op, cur, reported>> /\ pc' \in SegPcs
<1>1. CASE sync_check \/ sync_lock \/ sync_wait \/ check_async_error
  BY <1>1 DEF sync_check, sync_lock, sync_wait, check_async_error, cacheVars, asyncVars, writerVars,
     histVars, SegPcs, Errored
<1>2. CASE wr_begin \/ wr_pwrite \/ wr_verify
  BY <1>2 DEF wr_begin, wr_pwrite, wr_verify, SyncFailed, AfterPwrite, cacheVars, asyncVars,
     writerVars, SegPcs
<1> QED BY <1>1, <1>2

----------------------------------------------------------------------------
(* The structure of the cache                                              *)

\* No slot is in use at first.
LEMMA InitStructure == Init => SInv
BY DEF Init, Call, SInv, Unique, CurDirty, FlushVisits, NoThreadError, Errored, AsyncPcs, SegPcs

\* Starting a call changes no slot, and a flush is to visit all dirty ones.
LEMMA StartStructure == EInv /\ SInv /\ StartCall => SInv'
<1> SUFFICES ASSUME EInv, SInv, StartCall PROVE SInv'
  OBVIOUS
<1>1. Dirty(Slot)' = Dirty(Slot)
  BY StartShape DEF Dirty, InUse
<1>2. \A s \in Dirty(Slot) : segments[s].dirty # {}
  BY DEF Dirty
<1>3. Unique' /\ NoThreadError'
  BY StartShape DEF SInv, Unique, NoThreadError, Errored, SegPcs
<1>4. CurDirty' /\ FlushVisits'
  BY StartShape, <1>1, <1>2 DEF SInv, CurDirty, FlushVisits, SegPcs, AsyncPcs
<1> QED BY <1>3, <1>4 DEF SInv

\* The writer thread and spurious wake-ups change no slot either.
LEMMA OtherStructure ==
  EInv /\ SInv /\ (WriterStep \/ SpuriousWakeup \/ UNCHANGED vars) => SInv'
<1> SUFFICES ASSUME EInv, SInv, WriterStep \/ SpuriousWakeup \/ UNCHANGED vars PROVE SInv'
  OBVIOUS
<1>1. /\ UNCHANGED <<segments, pc, op, cur, ret, todo, reported, reused>>
      /\ ~UsePthreads => bad_offset' = bad_offset
  <2>1. CASE WriterStep
    BY <2>1, WriterShape DEF EInv, IInv, Handoff, NoThreads, WriterHasSegment
  <2>2. CASE SpuriousWakeup \/ UNCHANGED vars
    BY <2>2 DEF SpuriousWakeup, vars, cacheVars, asyncVars, mainVars, histVars
  <2> QED BY <2>1, <2>2
<1>2. Dirty(Slot)' = Dirty(Slot)
  BY <1>1 DEF Dirty, InUse
<1>3. Target' = Target
  BY <1>1 DEF Target
<1> QED BY <1>1, <1>2, <1>3 DEF SInv, Unique, CurDirty, FlushVisits, NoThreadError, Errored

\* A step of the main thread.
LEMMA MainStructure == EInv /\ SInv /\ MainStep => SInv'
<1> SUFFICES ASSUME EInv, SInv, MainStep PROVE SInv'
  OBVIOUS
<1>0. IInv /\ WhichCall
  BY DEF EInv
<1>r. /\ segments \in [Slot -> Segment] /\ cur \in Slot /\ todo \subseteq Slot
      /\ seg_to_write \in Slot \cup {NULL} /\ NULL \notin Slot
      /\ reported \in BOOLEAN /\ reused \in BOOLEAN /\ UsePthreads \in BOOLEAN
      /\ \A s \in Slot : /\ segments[s].valid \subseteq Block
                         /\ segments[s].dirty \subseteq segments[s].valid
                         /\ segments[s].last_access \in Nat
  BY <1>0, Ranges
<1>p. Block # {}
  BY ConstAssumption
<1>n. ~UsePthreads => ~reused /\ ~Errored /\ seg_to_write = NULL /\ pc \notin AsyncPcs
  BY <1>0 DEF SInv, NoThreadError, IInv, Handoff, NoThreads
\* A step to a place where nothing is written or flushed, that keeps the slots apart.
<1>v. ASSUME pc' \notin {"flush", "sync_check", "sync_lock", "sync_wait", "recheck"} \cup SegPcs \cup AsyncPcs,
             \A s, t \in Slot : segments'[s].in_use /\ segments'[t].in_use
                                /\ segments'[s].offset = segments'[t].offset => s = t,
             pc' \in {"idle", "join"} /\ op'.name = "flush" /\ ~reported' => Dirty(Slot)' = {},
             ~UsePthreads => ~reused' /\ bad_offset' \in {bad_offset, NULL}
      PROVE  SInv'
  <2>1. Unique'
    BY <1>v DEF Unique
  <2>2. CurDirty'
    BY <1>v DEF CurDirty, SegPcs
  <2>3. FlushVisits'
    BY <1>v DEF FlushVisits
  <2>4. NoThreadError'
    BY <1>v, <1>n DEF NoThreadError, Errored
  <2> QED BY <2>1, <2>2, <2>3, <2>4 DEF SInv
<1>1. CASE get_segment_hit
  <2>1. pc' \in {"get", "body"} /\ UNCHANGED <<bad_offset, reused>>
    BY <1>0, <1>1, HitShape
  <2>2. \A s, t \in Slot : segments'[s].in_use /\ segments'[t].in_use
                           /\ segments'[s].offset = segments'[t].offset => s = t
    BY <1>0, <1>1, HitShape DEF Kept, SInv, Unique
  <2> QED BY <1>n, <1>v, <2>1, <2>2 DEF SegPcs, AsyncPcs
<1>2. CASE get_segment_miss
  <2>1. CASE pc' = "body"
    <3>1. \A s, t \in Slot : segments'[s].in_use /\ segments'[t].in_use
                             /\ segments'[s].offset = segments'[t].offset => s = t
      BY <1>0, <1>2, <2>1, MissShape DEF SInv, Unique
    <3>2. ~UsePthreads => ~reused' /\ bad_offset' = bad_offset
      BY <1>0, <1>2, <1>n, <2>1, MissShape
    <3> QED BY <1>v, <2>1, <3>1, <3>2 DEF SegPcs, AsyncPcs
  <2>2. CASE pc' = "valid" /\ ret' = "evict" /\ UNCHANGED <<segments, reused>>
             /\ segments[cur'].in_use /\ segments[cur'].dirty # {}
    <3>1. /\ Target' = Target /\ bad_offset' = bad_offset
          /\ \A t \in Slot : segments[t].in_use => segments[t].offset # Target.seg
      BY <1>0, <1>2, MissShape DEF Target
    <3>2. Unique'
      BY <2>2, <3>1 DEF SInv, Unique
    <3>3. CurDirty'
      BY <2>2 DEF CurDirty, SegPcs, AsyncPcs
    <3>4. FlushVisits' /\ NoThreadError'
      BY <1>n, <2>2, <3>1 DEF FlushVisits, NoThreadError, Errored, SegPcs
    <3> QED BY <3>2, <3>3, <3>4 DEF SInv
  <2> QED BY <1>0, <1>2, <2>1, <2>2, MissShape
<1>3. CASE block_segment_pwrite
  <2>1. \A s, t \in Slot : segments'[s].in_use /\ segments'[t].in_use
                           /\ segments'[s].offset = segments'[t].offset => s = t
    BY <1>0, <1>r, <1>3, CopyShape DEF SInv, Unique
  <2>2. /\ cur' = cur /\ op'.name = "pwrite" /\ UNCHANGED <<bad_offset, reused>>
        /\ \/ pc' \in {"idle", "get"}
           \/ /\ segments'[cur].dirty = Block /\ ret' = "stream"
              /\ pc' = IF UsePthreads THEN "async_check" ELSE "wr_begin"
    BY <1>0, <1>3, CopyShape
  <2>3. CASE pc' \in {"idle", "get"}
    BY <1>n, <1>v, <2>1, <2>2, <2>3 DEF SegPcs, AsyncPcs
  <2>4. CASE /\ segments'[cur].dirty = Block /\ ret' = "stream"
             /\ pc' = IF UsePthreads THEN "async_check" ELSE "wr_begin"
    <3>1. pc' \in {"async_check", "wr_begin"}
      BY <2>4
    <3>2. segments'[cur].valid = Block
      <4>1. /\ segments'[cur].valid = segments[cur].valid \cup Target.blocks
            /\ segments'[cur].dirty = segments[cur].dirty \cup Target.blocks
            /\ Target.blocks \subseteq Block
        BY <1>0, <1>3, CopyShape
      <4> QED BY <1>r, <2>4, <4>1
    <3>3. Unique'
      BY <2>1, <2>4 DEF Unique
    <3>4. CurDirty'
      BY <1>p, <2>2, <2>4, <3>1, <3>2 DEF CurDirty, SegPcs, AsyncPcs
    <3>5. FlushVisits' /\ NoThreadError'
      BY <1>n, <2>2, <2>4, <3>1 DEF FlushVisits, NoThreadError, Errored, SegPcs
    <3> QED BY <3>3, <3>4, <3>5 DEF SInv
  <2> QED BY <2>2, <2>3, <2>4
\* Leaving the write of a segment.
<1>d. ASSUME pc \in SegPcs, NEW ok \in BOOLEAN, SegmentDone(ok), UNCHANGED <<ret, todo, reused>>,
             ~UsePthreads => UNCHANGED bad_offset
      PROVE  SInv'
  <2>1. /\ op'.name = op.name
        /\ \/ ok /\ ret = "evict" /\ pc' = "body" /\ reported' = reported
           \/ ok /\ ret = "flush" /\ pc' = "flush" /\ reported' = reported
           \/ ok /\ ret = "stream" /\ pc' \in {"idle", "get"} /\ reported' = reported
           \/ ~ok /\ pc' = "idle" /\ reported'
    BY <1>0, <1>d, SegmentDoneCall
  <2>2. \A s, t \in Slot : segments'[s].in_use /\ segments'[t].in_use
                           /\ segments'[s].offset = segments'[t].offset => s = t
    <3>1. CASE ok /\ ret = "evict"
      <4>1. /\ segments'[cur].in_use /\ segments'[cur].offset = Target.seg
            /\ \A t \in Slot \ {cur} : segments'[t] = segments[t]
        BY <1>0, <1>d, <3>1, DoneFields
      <4>2. \A s \in Slot : segments[s].in_use => segments[s].offset # Target.seg
        BY <1>d, <3>1 DEF SInv, Unique
      <4> QED BY <4>1, <4>2 DEF SInv, Unique
    <3>2. CASE ~(ok /\ ret = "evict")
      <4>1. \A t \in Slot : /\ segments'[t].in_use = segments[t].in_use
                            /\ segments'[t].offset = segments[t].offset
        BY <1>0, <1>d, <1>r, <3>2, DoneFields
      <4> QED BY <4>1 DEF SInv, Unique
    <3> QED BY <3>1, <3>2
  <2>3. CASE ok /\ ret = "flush" /\ pc' = "flush"
    <3>1. /\ segments'[cur].dirty = {}
          /\ \A t \in Slot \ {cur} : segments'[t] = segments[t]
      BY <1>0, <1>d, <2>3, DoneFields
    <3>2. /\ Dirty(Slot) \subseteq todo \cup {cur} /\ cur \notin todo
          /\ \A s \in todo : segments[s].dirty # {}
      BY <1>d, <2>3 DEF SInv, FlushVisits, CurDirty
    <3>3. Dirty(Slot)' \subseteq todo
      BY <1>r, <3>1, <3>2 DEF Dirty, InUse
    <3>4. CurDirty'
      BY <1>d, <1>r, <2>3, <3>1, <3>2 DEF CurDirty, SegPcs, AsyncPcs
    <3>5. Unique'
      BY <2>2, <2>3 DEF Unique, SegPcs
    <3>6. FlushVisits' /\ NoThreadError'
      BY <1>d, <1>n, <2>3, <3>3 DEF FlushVisits, NoThreadError, Errored, SegPcs
    <3> QED BY <3>4, <3>5, <3>6 DEF SInv
  <2>4. CASE ~(ok /\ ret = "flush")
    <3>1. pc' \in {"body", "idle", "get"} /\ (pc' = "idle" /\ op'.name = "flush" => reported')
      BY <1>0, <1>d, <2>1, <2>4 DEF WhichCall
    <3> QED BY <1>d, <1>n, <1>v, <2>2, <3>1 DEF SegPcs, AsyncPcs
  <2> QED BY <2>1, <2>3, <2>4
<1>4. CASE block_segment_pread \/ flush_segment
  <2>1. CASE pc = "body"
    <3>1. /\ pc' \in {"idle", "get"} /\ UNCHANGED <<bad_offset, reused>>
          /\ (pc' = "idle" /\ op'.name = "flush" => reported')
      BY <1>0, <1>4, <2>1, MergeShape
    <3>2. \A t \in Slot : /\ segments'[t].in_use = segments[t].in_use
                          /\ segments'[t].offset = segments[t].offset
      BY <1>0, <1>4, <1>r, <2>1, MergeShape
    <3>3. \A s, t \in Slot : segments'[s].in_use /\ segments'[t].in_use
                             /\ segments'[s].offset = segments'[t].offset => s = t
      BY <3>2 DEF SInv, Unique
    <3> QED BY <1>n, <1>v, <3>1, <3>3 DEF SegPcs, AsyncPcs
  <2>2. CASE pc = "valid" /\ SegmentDone(FALSE)
    <3>1. UNCHANGED <<ret, todo, reused, bad_offset>>
      BY <1>0, <1>4, MergeShape
    <3> QED BY <1>d, <2>2, <3>1 DEF SegPcs
  <2>3. CASE pc = "valid" /\ ~SegmentDone(FALSE)
    <3>1. /\ UNCHANGED <<bad_offset, ret, todo, reused, cur, op, reported>>
          /\ pc' = IF UsePthreads THEN "sync_check" ELSE "wr_begin"
          /\ \A t \in Slot \ {cur} : segments'[t] = segments[t]
          /\ segments'[cur].in_use = segments[cur].in_use
          /\ segments'[cur].offset = segments[cur].offset
          /\ segments'[cur].last_access = segments[cur].last_access
          /\ segments'[cur].valid = Block /\ segments'[cur].dirty = segments[cur].dirty
      BY <1>0, <1>4, <2>3, MergeShape
    <3>2. pc' \in {"sync_check", "wr_begin"} /\ (pc' = "sync_check" => UsePthreads)
      BY <3>1
    <3>3. \A t \in Slot : /\ segments'[t].in_use = segments[t].in_use
                          /\ segments'[t].offset = segments[t].offset
                          /\ segments'[t].dirty = segments[t].dirty
                          /\ segments'[t].last_access = segments[t].last_access
      BY <1>r, <3>1
    <3>4. Dirty(Slot)' = Dirty(Slot) /\ Target' = Target
      BY <3>1, <3>3 DEF Dirty, InUse, Target
    <3>5. Unique'
      BY <2>3, <3>1, <3>2, <3>3, <3>4 DEF SInv, Unique, SegPcs
    <3>6. CurDirty'
      BY <1>r, <2>3, <3>1, <3>2, <3>3 DEF SInv, CurDirty, SegPcs, AsyncPcs
    <3>7. FlushVisits' /\ NoThreadError'
      BY <1>n, <1>r, <2>3, <3>1, <3>2, <3>3, <3>4 DEF SInv, FlushVisits, NoThreadError, Errored, SegPcs
    <3> QED BY <3>5, <3>6, <3>7 DEF SInv
  <2> QED BY <1>0, <1>4, <2>1, <2>2, <2>3, MergeShape
<1>5. CASE FlushNext
  <2>1. /\ UNCHANGED <<segments, bad_offset, reused, op>> /\ pc = "flush"
        /\ \/ pc' = "idle" /\ todo = {}
           \/ /\ cur' \in todo /\ IsLru(cur', todo) /\ ret' = "flush" /\ todo' = todo \ {cur'}
              /\ pc' = "valid"
    BY <1>5 DEF FlushNext, Finish, cacheVars, asyncVars
  <2>2. /\ Dirty(Slot)' = Dirty(Slot) /\ Dirty(Slot) \subseteq todo
        /\ \A s \in todo : segments[s].dirty # {}
    BY <2>1 DEF SInv, CurDirty, FlushVisits, Dirty, InUse
  <2>3. CASE pc' = "idle" /\ todo = {}
    <3>1. \A s, t \in Slot : segments'[s].in_use /\ segments'[t].in_use
                             /\ segments'[s].offset = segments'[t].offset => s = t
      BY <2>1 DEF SInv, Unique
    <3> QED BY <1>n, <1>v, <2>1, <2>2, <2>3, <3>1 DEF SegPcs, AsyncPcs
  <2>4. CASE /\ cur' \in todo /\ IsLru(cur', todo) /\ ret' = "flush" /\ todo' = todo \ {cur'}
             /\ pc' = "valid"
    <3>1. Unique' /\ CurDirty'
      BY <1>r, <2>1, <2>2, <2>4 DEF SInv, Unique, CurDirty, SegPcs, AsyncPcs
    <3>2. FlushVisits' /\ NoThreadError'
      BY <1>n, <1>r, <2>1, <2>2, <2>4 DEF FlushVisits, IsLru, NoThreadError, Errored, SegPcs
    <3> QED BY <3>1, <3>2 DEF SInv
  <2> QED BY <2>1, <2>3, <2>4
<1>6. CASE DropSegment \/ TrimDone \/ ResetDone \/ FreeJoin
  <2>1. /\ pc' \in {"drop", "idle", "freed"} /\ UNCHANGED <<op, reused>>
        /\ bad_offset' \in {bad_offset, NULL}
        /\ pc' = "idle" => op.name \in {"trim", "reset"}
    BY <1>6 DEF DropSegment, TrimDone, ResetDone, FreeJoin, Finish, asyncVars, histVars
  <2>2. \A t \in Slot : segments'[t].in_use => /\ segments[t].in_use
                                               /\ segments'[t].offset = segments[t].offset
    <3>1. CASE DropSegment
      BY <1>0, <1>r, <3>1, DropShape
    <3>2. CASE TrimDone \/ ResetDone \/ FreeJoin
      BY <1>r, <3>2 DEF TrimDone, ResetDone, FreeJoin, cacheVars, Segment
    <3> QED BY <1>6, <3>1, <3>2
  <2>3. \A s, t \in Slot : segments'[s].in_use /\ segments'[t].in_use
                           /\ segments'[s].offset = segments'[t].offset => s = t
    BY <2>2 DEF SInv, Unique
  <2> QED BY <1>n, <1>v, <2>1, <2>3 DEF SegPcs, AsyncPcs
<1>7. CASE async_check \/ async_lock
  <2>1. /\ UNCHANGED <<segments, bad_offset, reused, op, cur, ret, todo>> /\ pc \in AsyncPcs
        /\ pc' \in {"idle", "recheck"} \cup AsyncPcs
    BY <1>7 DEF async_check, async_lock, Finish, cacheVars, asyncVars, AsyncPcs
  <2>2. UsePthreads /\ ret = "stream" /\ op.name = "pwrite" /\ segments[cur].dirty = Block
        /\ segments[cur].valid = Block
    BY <1>0, <1>n, <2>1 DEF WhichCall, IInv, ChunkLeft, SInv, CurDirty, Handoff, HandsOverComplete
  <2>3. Unique' /\ CurDirty'
    BY <1>p, <2>1, <2>2 DEF SInv, Unique, CurDirty, SegPcs, AsyncPcs
  <2>4. FlushVisits' /\ NoThreadError'
    BY <2>1, <2>2 DEF FlushVisits, NoThreadError, SegPcs, AsyncPcs
  <2> QED BY <2>3, <2>4 DEF SInv
<1>8. CASE sync_check \/ sync_lock \/ sync_wait \/ wr_begin \/ wr_pwrite \/ wr_verify
           \/ check_async_error
  <2>1. CASE SegmentDone(TRUE) \/ SegmentDone(FALSE)
    <3>1. /\ UNCHANGED <<ret, todo, reused>> /\ pc \in SegPcs
          /\ \/ SegmentDone(TRUE) /\ UNCHANGED bad_offset
             \/ SegmentDone(FALSE) /\ (~UsePthreads => UNCHANGED bad_offset)
             \/ UNCHANGED <<segments, trimmed, bad_offset, op, cur, reported>>
      BY <1>0, <1>8, WriteShape
    <3> QED BY <1>d, <2>1, <3>1
  <2>2. CASE ~(SegmentDone(TRUE) \/ SegmentDone(FALSE))
    <3>1. /\ UNCHANGED <<segments, bad_offset, op, cur, reported, ret, todo, reused>>
          /\ pc \in SegPcs /\ pc' \in SegPcs
      BY <1>0, <1>8, <2>2, WriteShape
    <3>2. /\ pc # "valid"
          /\ pc' \in {"sync_check", "sync_lock", "sync_wait", "recheck"} => UsePthreads
          /\ pc' \in {"wr_pwrite", "wr_verify"} => ~PastEnd(segments[cur].offset)
      BY <1>8, <2>2 DEF sync_check, sync_lock, sync_wait, wr_begin, wr_pwrite, wr_verify,
         check_async_error, AfterPwrite, SyncFailed, Errored, SInv, NoThreadError, CurDirty
    <3>3. Dirty(Slot)' = Dirty(Slot) /\ Target' = Target
      BY <3>1 DEF Dirty, InUse, Target
    <3>4. Unique'
      BY <3>1, <3>3 DEF SInv, Unique
    <3>5. CurDirty'
      BY <3>1, <3>2 DEF SInv, CurDirty, SegPcs, AsyncPcs
    <3>6. FlushVisits' /\ NoThreadError'
      BY <1>n, <3>1, <3>2, <3>3 DEF SInv, FlushVisits, NoThreadError, Errored, SegPcs
    <3> QED BY <3>4, <3>5, <3>6 DEF SInv
  <2> QED BY <2>1, <2>2
<1> QED BY <1>1, <1>2, <1>3, <1>4, <1>5, <1>6, <1>7, <1>8 DEF MainStep

\* The structure of the cache is kept by every step.
LEMMA StepStructure == EInv /\ SInv /\ [Next]_vars => SInv'
BY StartStructure, MainStructure, OtherStructure DEF Next, Freed

----------------------------------------------------------------------------
(* The data, one kind of step at a time                                    *)

\* What follows at once: the current segment is not the writer's, the two lie
\* at different offsets, and without threads no damage outlives its write.
LEMMA Apart ==
  ASSUME IInv, SInv, Quiet, DCore
  PROVE  /\ pc \in ({"body"} \cup SegPcs) \ {"recheck"} =>
              /\ seg_to_write # cur
              /\ seg_to_write # NULL => segments[seg_to_write].offset # segments[cur].offset
         /\ seg_to_write # NULL => /\ seg_to_write \in Slot /\ segments[seg_to_write].in_use
                                   /\ segments[seg_to_write].valid = Block
         /\ pc \in {"body"} \cup AsyncPcs \cup SegPcs => segments[cur].in_use
         /\ ~UsePthreads /\ pc # "wr_verify" => damaged = {}
<1>0. cur \in Slot /\ seg_to_write \in Slot \cup {NULL} /\ NULL \notin Slot
  BY Ranges
<1>1. seg_to_write # NULL => /\ seg_to_write \in Slot /\ segments[seg_to_write].in_use
                             /\ segments[seg_to_write].valid = Block
  BY <1>0 DEF IInv, Handoff, WriterSegment, Quiet
<1>2. pc \in ({"body"} \cup SegPcs) \ {"recheck"} => seg_to_write # cur
  BY <1>0 DEF IInv, Handoff, Elsewhere, SInv, CurDirty, DCore, Flight, Quiet
<1>3. pc \in {"body"} \cup AsyncPcs \cup SegPcs => segments[cur].in_use
  BY DEF IInv, Handoff, CurInUse
<1>4. ~UsePthreads /\ pc # "wr_verify" => damaged = {}
  BY DEF SInv, NoThreadError, IInv, Handoff, NoThreads, DCore, DamageKnown
<1> QED BY <1>0, <1>1, <1>2, <1>3, <1>4 DEF SInv, Unique

\* A write leaves the segment damaged exactly if the media now holds something
\* else, and touches no other segment.
LEMMA WriteEffect ==
  ASSUME IInv, NEW off \in Segs, NEW data \in [Block -> Value],
         pwrite_ok(off, data) \/ pwrite_bad(off, data)
  PROVE  /\ \A o \in Segs \ {off} : disk'[o] = disk[o] /\ (o \in damaged' <=> o \in damaged)
         /\ off \notin damaged' <=> \A x \in IoBlocks(off) : disk'[off][x] = data[x]
         /\ damaged' \subseteq damaged \cup {off}
<1>0. disk \in [Segs -> [Block -> Value]] /\ IoBlocks(off) \subseteq Block
  BY Ranges DEF IoBlocks
<1>1. CASE pwrite_ok(off, data)
  BY <1>0, <1>1 DEF pwrite_ok, Written
<1>2. CASE pwrite_bad(off, data)
  <2>1. \A x \in IoBlocks(off) : disk'[off][x] = Torn
    BY <1>0, <1>2 DEF pwrite_bad, Damage, Written
  <2>2. /\ \A o \in Segs \ {off} : disk'[o] = disk[o]
        /\ damaged' = IF \A b \in IoBlocks(off) : data[b] = Torn THEN damaged \ {off}
                      ELSE damaged \cup {off}
    BY <1>0, <1>2 DEF pwrite_bad
  <2> QED BY <2>1, <2>2
<1> QED BY <1>1, <1>2

\* A step that moves the main thread and leaves the data alone.
LEMMA ControlStep ==
  ASSUME EInv, SInv, Quiet, DCore, Quiet',
         \A t \in Slot : Kept(t),
         UNCHANGED <<trimmed, seg_to_write, bad_offset, wpc, woff, disk, damaged, logical>>,
         pc \notin {"body", "wr_verify", "recheck"}, pc' # "wr_verify",
         pc = "drop" => todo = {} \/ (pc' = "drop" /\ todo' = todo),
         pc' = "drop" => pc = "drop" /\ todo' = todo,
         MainWrites'
  PROVE  DCore'
<1>0. /\ IInv /\ seg_to_write \in Slot \cup {NULL} /\ todo \subseteq Slot
      /\ \A s \in Slot : segments[s].offset \in Segs
  BY Ranges DEF EInv
<1>1. InUse(Slot)' = InUse(Slot) /\ Dirty(Slot)' = Dirty(Slot) /\ InUse(Slot) \subseteq Slot
  BY DEF InUse, Dirty, Kept
<1>2. \A s \in Slot : OnMedia(s)' <=> OnMedia(s)
  BY DEF OnMedia, SameOnDisk, Kept
<1>3. \A s \in Slot : Dropping(s)' <=> Dropping(s)
  BY DEF Dropping
<1>4. CleanIsValid'
  BY <1>1 DEF DCore, CleanIsValid, Kept
<1>5. Flight'
  <2> SUFFICES ASSUME seg_to_write # NULL PROVE Flight'
    BY DEF Flight
  <2>1. seg_to_write \in Slot
    BY <1>0
  <2>2. Kept(seg_to_write) /\ (OnMedia(seg_to_write)' <=> OnMedia(seg_to_write))
        /\ (Dropping(seg_to_write)' <=> Dropping(seg_to_write))
    BY <1>2, <1>3, <2>1
  <2> QED BY <2>2 DEF DCore, Flight, Kept, Errored, OnMedia, Dropping
<1>6. DamageKnown'
  BY <1>0 DEF DCore, DamageKnown, Errored, Kept
<1>7. TrimZero'
  BY <1>0 DEF DCore, TrimZero, Kept
<1>8. DataRight'
  <2> SUFFICES ASSUME NEW s \in InUse(Slot), ~Dropping(s),
                      NEW x \in segments[s].valid \cap IoBlocks(segments[s].offset)
               PROVE  \/ segments[s].data[x] = logical[segments[s].offset][x]
                      \/ /\ segments[s].offset \in damaged /\ x \notin segments[s].dirty
                         /\ s # seg_to_write
    BY <1>1, <1>3 DEF DataRight, Kept
  <2> QED BY DEF DCore, DataRight
<1>9. DiskRight'
  BY <1>1 DEF DCore, DiskRight, ReadSegment, Kept
<1>10. PastEndDirty'
  BY <1>1 DEF DCore, PastEndDirty, Dirty, InUse, Kept
<1> QED BY <1>4, <1>5, <1>6, <1>7, <1>8, <1>9, <1>10 DEF DCore

\* get_segment takes a slot that is not dirty and not the writer's.
LEMMA TakeData ==
  ASSUME EInv, SInv, Quiet, DCore, Quiet', get_segment_miss, pc' = "body"
  PROVE  DCore'
<1> DEFINE c == cur'
<1>0. /\ IInv /\ seg_to_write \in Slot \cup {NULL} /\ NULL \notin Slot
  BY Ranges DEF EInv
<1>1. /\ pc = "get"
      /\ UNCHANGED <<trimmed, seg_to_write, bad_offset, op, todo, wpc, woff, disk, damaged, logical>>
      /\ c \in Slot
      /\ \A t \in Slot \ {c} : segments'[t] = segments[t]
      /\ ~segments[c].in_use \/ segments[c].dirty = {}
      /\ seg_to_write # c
      /\ segments'[c].in_use /\ segments'[c].valid = {} /\ segments'[c].dirty = {}
  BY <1>0, MissShape DEF Quiet
<1> HIDE DEF c
<1>2. /\ \A s \in InUse(Slot) \ {c} : s \in InUse(Slot)'
      /\ \A s \in InUse(Slot)' : s \in Slot /\ (s # c => s \in InUse(Slot))
      /\ Dirty(Slot) \subseteq Dirty(Slot)'
  BY <1>1 DEF InUse, Dirty
<1>3. CleanIsValid'
  BY <1>1, <1>2 DEF DCore, CleanIsValid, c
<1>4. Flight' /\ MainWrites' /\ DamageKnown' /\ TrimZero'
  BY <1>0, <1>1 DEF DCore, Flight, MainWrites, DamageKnown, TrimZero, Dropping, OnMedia, SameOnDisk,
     Errored
<1>5. DataRight'
  BY <1>1, <1>2 DEF DCore, DataRight, Dropping
<1>6. DiskRight'
  <2> SUFFICES ASSUME NEW off \in Segs \ damaged, NEW x \in IoBlocks(off),
                      ReadSegment(off)[x] # logical[off][x]
               PROVE  \E s \in InUse(Slot)' : /\ segments'[s].offset = off
                                              /\ x \in segments'[s].dirty \/ s = seg_to_write
    BY <1>1 DEF DiskRight, ReadSegment
  <2>1. PICK s \in InUse(Slot) : /\ segments[s].offset = off
                                 /\ x \in segments[s].dirty \/ s = seg_to_write
    BY DEF DCore, DiskRight
  <2>2. s # c /\ s \in Slot
    BY <1>1, <2>1 DEF InUse
  <2> QED BY <1>1, <1>2, <2>1, <2>2
<1>7. PastEndDirty'
  <2>1. \A s \in Dirty(Slot) : s \in Slot /\ s # c
    BY <1>1 DEF Dirty, InUse
  <2> QED BY <1>1, <1>2, <2>1 DEF DCore, PastEndDirty
<1> QED BY <1>3, <1>4, <1>5, <1>6, <1>7 DEF DCore

\* block_segment_pwrite: the cache and what a reader ought to see change together.
LEMMA CopyData ==
  ASSUME EInv, SInv, Quiet, DCore, Quiet', block_segment_pwrite
  PROVE  DCore'
<1> DEFINE coff == segments[cur].offset
           T == Target.blocks
<1>0. /\ IInv /\ seg_to_write \in Slot \cup {NULL} /\ NULL \notin Slot /\ cur \in Slot
      /\ coff \in Segs /\ \A s \in Slot : segments[s].offset \in Segs
      /\ \A o \in Segs : IoBlocks(o) \subseteq Block
  BY Ranges DEF EInv, IoBlocks
<1>1. /\ pc = "body" /\ cur' = cur
      /\ UNCHANGED <<trimmed, seg_to_write, bad_offset, todo, wpc, woff, disk, damaged, reused>>
      /\ \A t \in Slot \ {cur} : segments'[t] = segments[t]
      /\ segments'[cur].in_use = segments[cur].in_use /\ segments'[cur].offset = coff
      /\ T # {} /\ T \subseteq Block
      /\ segments'[cur].valid = segments[cur].valid \cup T
      /\ segments'[cur].dirty = segments[cur].dirty \cup T
      /\ \A x \in Block : segments'[cur].data[x] = IF x \in T THEN op.val ELSE segments[cur].data[x]
      /\ \A o \in Segs : \A x \in Block :
           logical'[o][x] = IF o = coff /\ x \in T THEN op.val ELSE logical[o][x]
      /\ pc' \in {"idle", "get", "async_check", "wr_begin"} /\ (pc' = "wr_begin" => ~UsePthreads)
  BY <1>0, CopyShape
<1>2. /\ seg_to_write # cur /\ segments[cur].in_use
      /\ ~UsePthreads => damaged = {}
  BY <1>0, <1>1, Apart
<1> HIDE DEF coff, T
<1>3. /\ InUse(Slot)' = InUse(Slot) /\ InUse(Slot) \subseteq Slot /\ cur \in InUse(Slot)
      /\ \A s \in InUse(Slot) \ {cur} : segments[s].offset # coff
  <2>1. \A s \in Slot : segments'[s].in_use = segments[s].in_use
    BY <1>1
  <2>2. \A s \in Slot \ {cur} : segments[s].in_use => segments[s].offset # coff
    BY <1>0, <1>2 DEF SInv, Unique, coff
  <2> QED BY <1>0, <1>2, <2>1, <2>2 DEF InUse
<1>4. CleanIsValid'
  BY <1>1, <1>3 DEF DCore, CleanIsValid
<1>5. Flight' /\ MainWrites' /\ DamageKnown' /\ TrimZero'
  BY <1>0, <1>1, <1>2 DEF DCore, Flight, MainWrites, DamageKnown, TrimZero, Dropping, OnMedia,
     SameOnDisk, Errored
<1>6. DataRight'
  <2> SUFFICES ASSUME NEW s \in InUse(Slot), NEW x \in segments'[s].valid \cap IoBlocks(segments'[s].offset)
               PROVE  \/ segments'[s].data[x] = logical'[segments'[s].offset][x]
                      \/ /\ segments'[s].offset \in damaged /\ x \notin segments'[s].dirty
                         /\ s # seg_to_write
    BY <1>1, <1>3 DEF DataRight
  <2>0. ~Dropping(s) /\ s \in Slot
    BY <1>1, <1>3 DEF Dropping
  <2>1. CASE s = cur
    <3>1. x \in Block
      BY <1>0, <1>1, <2>1 DEF coff
    <3>2. CASE x \in T
      BY <1>0, <1>1, <2>1, <3>1, <3>2
    <3>3. CASE x \notin T
      <4>1. x \in segments[s].valid \cap IoBlocks(segments[s].offset)
        BY <1>1, <2>1, <3>3 DEF coff
      <4>2. \/ segments[s].data[x] = logical[segments[s].offset][x]
            \/ /\ segments[s].offset \in damaged /\ x \notin segments[s].dirty
        BY <2>0, <4>1 DEF DCore, DataRight
      <4> QED BY <1>0, <1>1, <1>2, <2>1, <3>1, <3>3, <4>2 DEF coff
    <3> QED BY <3>2, <3>3
  <2>2. CASE s # cur
    <3>1. segments'[s] = segments[s] /\ segments[s].offset # coff /\ x \in Block
      BY <1>0, <1>1, <1>3, <2>0, <2>2
    <3>2. \/ segments[s].data[x] = logical[segments[s].offset][x]
          \/ /\ segments[s].offset \in damaged /\ x \notin segments[s].dirty
             /\ s # seg_to_write
      BY <2>0, <3>1 DEF DCore, DataRight
    <3> QED BY <1>0, <1>1, <2>0, <3>1, <3>2
  <2> QED BY <2>1, <2>2
<1>7. DiskRight'
  <2> SUFFICES ASSUME NEW off \in Segs \ damaged, NEW x \in IoBlocks(off),
                      ReadSegment(off)[x] # logical'[off][x]
               PROVE  \E s \in InUse(Slot) : /\ segments'[s].offset = off
                                             /\ x \in segments'[s].dirty \/ s = seg_to_write
    BY <1>1, <1>3 DEF DiskRight, ReadSegment
  <2>1. x \in Block
    BY <1>0
  <2>2. CASE off = coff /\ x \in T
    BY <1>1, <1>3, <2>2
  <2>3. CASE ~(off = coff /\ x \in T)
    <3>1. logical'[off][x] = logical[off][x]
      BY <1>1, <2>1, <2>3
    <3>2. PICK s \in InUse(Slot) : /\ segments[s].offset = off
                                   /\ x \in segments[s].dirty \/ s = seg_to_write
      BY <3>1 DEF DCore, DiskRight
    <3>3. s = cur \/ segments'[s] = segments[s]
      BY <1>1, <1>3
    <3>4. segments'[s].offset = off /\ (x \in segments'[s].dirty \/ s = seg_to_write)
      BY <1>1, <3>2, <3>3 DEF coff
    <3> QED BY <3>4
  <2> QED BY <2>2, <2>3
<1>8. PastEndDirty'
  <2> SUFFICES ASSUME ~UsePthreads, NEW off \in Segs, PastEnd(off),
                      ~ \A x \in Block : logical'[off][x] = Zero
               PROVE  \E s \in Dirty(Slot)' : segments'[s].offset = off
    BY DEF PastEndDirty
  <2>0. /\ cur \in Dirty(Slot)' /\ Dirty(Slot) \subseteq Dirty(Slot)' /\ Dirty(Slot) \subseteq Slot
    BY <1>0, <1>1, <1>2 DEF Dirty, InUse
  <2>1. CASE off = coff
    BY <1>1, <2>0, <2>1
  <2>2. CASE off # coff
    <3>1. \A x \in Block : logical'[off][x] = logical[off][x]
      BY <1>1, <2>2
    <3>2. PICK s \in Dirty(Slot) : segments[s].offset = off
      BY <3>1 DEF DCore, PastEndDirty
    <3>3. segments'[s].offset = off
      BY <1>1, <2>0, <3>2 DEF coff
    <3> QED BY <2>0, <3>3
  <2> QED BY <2>1, <2>2
<1> QED BY <1>4, <1>5, <1>6, <1>7, <1>8 DEF DCore

\* make_segment_valid reads what was last written, unless the media is damaged.
LEMMA MergeData ==
  ASSUME EInv, SInv, Quiet, DCore, Quiet', block_segment_pread \/ flush_segment
  PROVE  DCore'
<1> DEFINE coff == segments[cur].offset
<1>0. /\ IInv /\ seg_to_write \in Slot \cup {NULL} /\ NULL \notin Slot /\ cur \in Slot
      /\ \A s \in Slot : segments[s].offset \in Segs /\ segments[s].dirty \subseteq segments[s].valid
      /\ \A o \in Segs : IoBlocks(o) \subseteq Block
  BY Ranges DEF EInv, IoBlocks
<1>1. /\ UNCHANGED <<trimmed, seg_to_write, bad_offset, ret, wpc, woff, disk, damaged, logical, cur>>
      /\ \A t \in Slot \ {cur} : segments'[t] = segments[t]
      /\ segments'[cur].in_use = segments[cur].in_use
      /\ segments'[cur].offset = coff
      /\ segments'[cur].valid = Block /\ segments'[cur].dirty = segments[cur].dirty
      /\ \A x \in Block : segments'[cur].data[x] =
           IF x \in segments[cur].valid THEN segments[cur].data[x] ELSE ReadSegment(coff)[x]
      /\ pc \in {"body", "valid"} /\ pc' \in {"idle", "get", "sync_check", "wr_begin"}
      /\ pc' = "wr_begin" => ~UsePthreads
  BY <1>0, MergeShape DEF Quiet
<1>2. /\ seg_to_write # cur /\ segments[cur].in_use
      /\ ~UsePthreads => damaged = {}
  BY <1>0, <1>1, Apart DEF SegPcs
<1> HIDE DEF coff
<1>3. /\ InUse(Slot)' = InUse(Slot) /\ InUse(Slot) \subseteq Slot /\ cur \in InUse(Slot)
      /\ Dirty(Slot)' = Dirty(Slot) /\ Dirty(Slot) \subseteq Slot
      /\ \A s \in Slot : /\ segments'[s].offset = segments[s].offset
                         /\ segments'[s].dirty = segments[s].dirty
  <2>1. \A s \in Slot : /\ segments'[s].in_use = segments[s].in_use
                        /\ segments'[s].offset = segments[s].offset
                        /\ segments'[s].dirty = segments[s].dirty
    BY <1>1 DEF coff
  <2> QED BY <1>0, <1>2, <2>1 DEF InUse, Dirty
<1>4. CleanIsValid'
  BY <1>1, <1>3 DEF DCore, CleanIsValid
<1>5. Flight' /\ MainWrites' /\ DamageKnown' /\ TrimZero'
  BY <1>0, <1>1, <1>2 DEF DCore, Flight, MainWrites, DamageKnown, TrimZero, Dropping, OnMedia,
     SameOnDisk, Errored
<1>6. DataRight'
  <2> SUFFICES ASSUME NEW s \in InUse(Slot), NEW x \in segments'[s].valid \cap IoBlocks(segments[s].offset)
               PROVE  \/ segments'[s].data[x] = logical[segments[s].offset][x]
                      \/ /\ segments[s].offset \in damaged /\ x \notin segments[s].dirty
                         /\ s # seg_to_write
    BY <1>1, <1>3 DEF DataRight
  <2>0. ~Dropping(s) /\ s \in Slot
    BY <1>1, <1>3 DEF Dropping
  <2>1. CASE s # cur \/ x \in segments[s].valid
    <3>1. x \in segments[s].valid /\ segments'[s].data[x] = segments[s].data[x]
      BY <1>0, <1>1, <2>0, <2>1
    <3> QED BY <2>0, <3>1 DEF DCore, DataRight
  <2>2. CASE s = cur /\ x \notin segments[s].valid
    <3>1. x \in Block /\ x \in IoBlocks(coff) /\ coff \in Segs
      BY <1>0, <2>2 DEF coff
    <3>2. segments'[s].data[x] = ReadSegment(coff)[x]
      BY <1>1, <2>2, <3>1
    <3>3. x \notin segments[s].dirty /\ s # seg_to_write
      BY <1>0, <1>2, <2>0, <2>2
    <3>4. CASE coff \notin damaged
      <4>1. ASSUME NEW t \in InUse(Slot), segments[t].offset = coff PROVE t = cur
        BY <1>3, <1>2, <4>1 DEF SInv, Unique, InUse, coff
      <4>2. ReadSegment(coff)[x] = logical[coff][x]
        BY <2>2, <3>1, <3>3, <3>4, <4>1 DEF DCore, DiskRight
      <4> QED BY <2>2, <3>2, <4>2 DEF coff
    <3>5. CASE coff \in damaged
      BY <2>2, <3>3, <3>5 DEF coff
    <3> QED BY <3>4, <3>5
  <2> QED BY <2>1, <2>2
<1>7. DiskRight'
  BY <1>1, <1>3 DEF DCore, DiskRight, ReadSegment
<1>8. PastEndDirty'
  BY <1>1, <1>3 DEF DCore, PastEndDirty
<1> QED BY <1>4, <1>5, <1>6, <1>7, <1>8 DEF DCore

\* block_cache_trim: what is trimmed reads as zeros from now on.
LEMMA TrimData ==
  ASSUME EInv, SInv, Quiet, DCore, Quiet', block_cache_trim
  PROVE  DCore'
<1>0. /\ IInv /\ seg_to_write \in Slot \cup {NULL} /\ NULL \notin Slot
      /\ \A s \in Slot : segments[s].offset \in Segs
      /\ \A o \in Segs : IoBlocks(o) \subseteq Block
  BY Ranges DEF EInv, IoBlocks
<1>1. PICK r \in TrimReqs :
        /\ trimmed' = trimmed \cup TrimSegs(r.first, r.count)
        /\ todo' = {s \in InUse(Slot) : segments[s].offset \in TrimSegs(r.first, r.count)}
        /\ logical' = [off \in Segs |-> IF off \in TrimSegs(r.first, r.count)
                                        THEN [b \in Block |-> Zero] ELSE logical[off]]
  BY DEF block_cache_trim
<1> DEFINE T == TrimSegs(r.first, r.count)
<1>2. /\ UNCHANGED <<segments, seg_to_write, bad_offset, cur, ret, wpc, woff, disk, damaged>>
      /\ pc = "idle" /\ pc' = "drop"
  BY DEF block_cache_trim, Start, asyncVars, writerVars, destVars
<1>3. /\ trimmed' = trimmed \cup T
      /\ todo' = {s \in InUse(Slot) : segments[s].offset \in T}
      /\ \A off \in Segs : off \notin T => logical'[off] = logical[off]
      /\ \A off \in Segs : \A x \in Block : off \in T => logical'[off][x] = Zero
  BY <1>1
<1> HIDE DEF T
<1>4. /\ InUse(Slot)' = InUse(Slot) /\ InUse(Slot) \subseteq Slot
      /\ Dirty(Slot)' = Dirty(Slot) /\ Dirty(Slot) \subseteq Slot
  BY <1>2 DEF InUse, Dirty
<1>5. CleanIsValid' /\ MainWrites' /\ DamageKnown'
  BY <1>2, <1>4 DEF DCore, CleanIsValid, MainWrites, DamageKnown, Errored
<1>6. TrimZero'
  BY <1>0, <1>2, <1>3, <1>4 DEF TrimZero, InUse
<1>7. Flight'
  <2>1. seg_to_write # NULL => seg_to_write \in InUse(Slot)
    BY <1>0, Apart DEF InUse
  <2> QED BY <1>2, <1>3, <2>1 DEF DCore, Flight, Dropping, OnMedia, SameOnDisk, Errored
<1>8. DataRight'
  BY <1>0, <1>2, <1>3, <1>4 DEF DCore, DataRight, Dropping
<1>9. DiskRight'
  <2> SUFFICES ASSUME NEW off \in Segs \ damaged, NEW x \in IoBlocks(off)
               PROVE  \/ ReadSegment(off)'[x] = logical'[off][x]
                      \/ \E s \in InUse(Slot) : /\ segments[s].offset = off
                                                /\ x \in segments[s].dirty \/ s = seg_to_write
    BY <1>2, <1>4 DEF DiskRight
  <2>1. x \in Block
    BY <1>0
  <2>2. CASE off \in T
    BY <1>2, <1>3, <2>1, <2>2 DEF ReadSegment
  <2>3. CASE off \notin T
    <3>1. ReadSegment(off)'[x] = ReadSegment(off)[x] /\ logical'[off] = logical[off]
      BY <1>2, <1>3, <2>1, <2>3 DEF ReadSegment
    <3> QED BY <3>1 DEF DCore, DiskRight
  <2> QED BY <2>2, <2>3
<1>10. PastEndDirty'
  BY <1>2, <1>3, <1>4 DEF DCore, PastEndDirty
<1> QED BY <1>5, <1>6, <1>7, <1>8, <1>9, <1>10 DEF DCore

\* block_cache_trim gives a slot back: it held nothing but zeros.
LEMMA DropData ==
  ASSUME EInv, SInv, Quiet, DCore, Quiet', DropSegment
  PROVE  DCore'
<1>0. /\ IInv /\ seg_to_write \in Slot \cup {NULL} /\ NULL \notin Slot /\ todo \subseteq Slot
      /\ \A s \in Slot : segments[s].offset \in Segs
      /\ \A o \in Segs : IoBlocks(o) \subseteq Block
  BY Ranges DEF EInv, IoBlocks
<1>1. /\ pc = "drop"
      /\ UNCHANGED <<trimmed, seg_to_write, bad_offset, pc, op, cur, ret, wpc, woff, disk, damaged,
                     logical, reported, reused>>
  BY <1>0, DropShape
<1>2. CASE UNCHANGED <<segments, todo>>
  BY <1>1, <1>2, ControlStep DEF Kept, MainWrites
<1>3. CASE ~UNCHANGED <<segments, todo>>
  <2>1. PICK d \in todo : /\ todo' = todo \ {d} /\ d # seg_to_write
                          /\ ~segments'[d].in_use
                          /\ \A t \in Slot \ {d} : segments'[t] = segments[t]
    BY <1>0, <1>3, DropShape
  <2>2. /\ InUse(Slot)' = InUse(Slot) \ {d} /\ InUse(Slot) \subseteq Slot
        /\ Dirty(Slot)' = Dirty(Slot) \ {d} /\ Dirty(Slot) \subseteq Slot
    BY <1>0, <2>1 DEF InUse, Dirty
  <2>3. /\ segments[d].offset \in trimmed
        /\ \A x \in Block : logical[segments[d].offset][x] = Zero
    BY <1>1 DEF DCore, TrimZero
  <2>4. CleanIsValid' /\ MainWrites' /\ DamageKnown' /\ TrimZero'
    BY <1>0, <1>1, <2>1, <2>2 DEF DCore, CleanIsValid, MainWrites, DamageKnown, TrimZero, Errored
  <2>5. Flight'
    BY <1>0, <1>1, <2>1 DEF DCore, Flight, Dropping, OnMedia, SameOnDisk, Errored
  <2>6. DataRight'
    BY <1>0, <1>1, <2>1, <2>2 DEF DCore, DataRight, Dropping
  <2>7. DiskRight'
    <3> SUFFICES ASSUME NEW off \in Segs \ damaged, NEW x \in IoBlocks(off),
                        ReadSegment(off)[x] # logical[off][x]
                 PROVE  \E s \in InUse(Slot)' : /\ segments'[s].offset = off
                                                /\ x \in segments'[s].dirty \/ s = seg_to_write
      BY <1>1 DEF DiskRight, ReadSegment
    <3>1. x \in Block
      BY <1>0
    <3>2. off # segments[d].offset
      BY <2>3, <3>1 DEF ReadSegment
    <3>3. PICK s \in InUse(Slot) : /\ segments[s].offset = off
                                   /\ x \in segments[s].dirty \/ s = seg_to_write
      BY DEF DCore, DiskRight
    <3> QED BY <2>1, <2>2, <3>2, <3>3
  <2>8. PastEndDirty'
    <3> SUFFICES ASSUME ~UsePthreads, NEW off \in Segs, PastEnd(off),
                        ~ \A x \in Block : logical[off][x] = Zero
                 PROVE  \E s \in Dirty(Slot)' : segments'[s].offset = off
      BY <1>1 DEF PastEndDirty
    <3>1. PICK s \in Dirty(Slot) : segments[s].offset = off
      BY DEF DCore, PastEndDirty
    <3> QED BY <2>1, <2>2, <2>3, <3>1
  <2> QED BY <2>4, <2>5, <2>6, <2>7, <2>8 DEF DCore
<1> QED BY <1>2, <1>3

\* do_async_write hands over a segment all of whose blocks are dirty.
LEMMA HandOverData ==
  ASSUME EInv, SInv, Quiet, DCore, Quiet', async_lock, seg_to_write = NULL
  PROVE  DCore'
<1>0. /\ IInv /\ NULL \notin Slot /\ cur \in Slot
      /\ \A s \in Slot : segments[s].valid \subseteq Block
  BY Ranges DEF EInv
<1>1. /\ UNCHANGED <<segments, trimmed, bad_offset, cur, ret, wpc, woff, disk, damaged, logical>>
      /\ pc = "async_lock" /\ pc' = "recheck" /\ seg_to_write' = cur
  BY <1>0 DEF async_lock, cacheVars, writerVars, destVars
<1>2. wpc = "top"
  <2>1. wpc \in {"top", "exited"}
    BY DEF EInv, IInv, TypeOK, WriterTypes, WriterPc, WriterHasSegment
  <2>2. wpc # "exited"
    BY <1>0, <1>1 DEF IInv, Handoff, WriterExit, NoThreads, AsyncPcs
  <2> QED BY <2>1, <2>2
<1>3. /\ ret = "stream" /\ segments[cur].dirty = Block /\ Block # {}
  BY <1>0, <1>1, ConstAssumption DEF IInv, ChunkLeft, SInv, CurDirty, AsyncPcs
<1>4. InUse(Slot)' = InUse(Slot) /\ InUse(Slot) \subseteq Slot /\ Dirty(Slot)' = Dirty(Slot)
  BY <1>1 DEF InUse, Dirty
<1>5. CleanIsValid' /\ TrimZero' /\ DamageKnown'
  BY <1>1, <1>4 DEF DCore, CleanIsValid, TrimZero, DamageKnown, Errored
<1>6. Flight'
  BY <1>1, <1>2, <1>3 DEF Flight
<1>7. MainWrites'
  BY <1>0, <1>1, <1>3 DEF MainWrites
<1>8. DataRight'
  BY <1>0, <1>1, <1>3, <1>4 DEF DCore, DataRight, Dropping
<1>9. DiskRight'
  BY <1>0, <1>1, <1>4 DEF DCore, DiskRight, ReadSegment
<1>10. PastEndDirty'
  BY <1>1, <1>4 DEF DCore, PastEndDirty
<1> QED BY <1>5, <1>6, <1>7, <1>8, <1>9, <1>10 DEF DCore

\* A segment is marked clean, or its slot given away, when it is on the media
\* or in the hands of the writer thread.
LEMMA DoneData ==
  ASSUME EInv, SInv, Quiet, DCore, Quiet', pc \in SegPcs \ {"valid"}, SegmentDone(TRUE),
         UNCHANGED <<seg_to_write, bad_offset, ret, wpc, woff, disk, damaged, logical>>,
         \/ OnMedia(cur) /\ segments[cur].offset \notin damaged /\ seg_to_write # cur
         \/ ret = "stream" /\ pc = "recheck" /\ ~Errored /\ seg_to_write = cur,
         UsePthreads \/ ~PastEnd(segments[cur].offset)
  PROVE  DCore'
<1> DEFINE coff == segments[cur].offset
<1>0. /\ IInv /\ seg_to_write \in Slot \cup {NULL} /\ NULL \notin Slot /\ cur \in Slot
      /\ \A s \in Slot : /\ segments[s].offset \in Segs /\ segments[s].in_use \in BOOLEAN
                         /\ segments[s].dirty \subseteq segments[s].valid
      /\ \A o \in Segs : IoBlocks(o) \subseteq Block
  BY Ranges DEF EInv, IoBlocks
<1>1. /\ cur' = cur
      /\ \A t \in Slot \ {cur} : segments'[t] = segments[t]
      /\ trimmed' = trimmed \ {coff}
      /\ segments'[cur].dirty = {}
  BY <1>0, DoneFields, SegmentDoneCall
<1>2. \/ /\ ret = "evict" /\ pc' = "body" /\ segments'[cur].valid = {} /\ segments'[cur].in_use
      \/ /\ ret \in {"flush", "stream"} /\ pc' \in {"flush", "idle", "get"}
         /\ segments'[cur].in_use = segments[cur].in_use /\ segments'[cur].offset = coff
         /\ segments'[cur].data = segments[cur].data /\ segments'[cur].valid = Block
  <2>1. segments[cur].valid = Block
    BY DEF SInv, CurDirty
  <2> QED BY <1>0, <2>1, DoneFields, SegmentDoneCall
<1>3. segments[cur].in_use /\ segments[cur].valid = Block
  BY <1>0, Apart DEF SInv, CurDirty
<1> HIDE DEF coff
<1>4. /\ InUse(Slot)' = InUse(Slot) /\ InUse(Slot) \subseteq Slot /\ cur \in InUse(Slot)
      /\ Dirty(Slot)' = Dirty(Slot) \ {cur} /\ Dirty(Slot) \subseteq Slot
  <2>1. \A s \in Slot : segments'[s].in_use = segments[s].in_use
    BY <1>0, <1>1, <1>2, <1>3
  <2> QED BY <1>0, <1>1, <1>3, <2>1 DEF InUse, Dirty
<1>5. CleanIsValid'
  BY <1>1, <1>2, <1>4 DEF DCore, CleanIsValid, SegPcs
<1>6. Flight'
  <2> SUFFICES ASSUME seg_to_write # NULL PROVE Flight'
    BY DEF Flight
  <2>1. CASE seg_to_write # cur
    <3>1. seg_to_write \in Slot \ {cur}
      BY <1>0, <2>1
    <3>2. pc # "recheck"
      BY <2>1 DEF DCore, MainWrites
    <3>3. segments'[seg_to_write] = segments[seg_to_write]
      BY <1>1, <3>1
    <3>4. segments[seg_to_write].dirty = {} /\ segments[seg_to_write].offset \notin trimmed
      BY <3>2 DEF DCore, Flight, Dropping, SegPcs
    <3> QED BY <1>1, <3>2, <3>3, <3>4 DEF DCore, Flight, OnMedia, SameOnDisk, Errored
  <2>2. CASE seg_to_write = cur
    <3>1. /\ segments'[cur].offset = coff /\ segments'[cur].data = segments[cur].data
          /\ ~Errored
      BY <1>2, <2>2
    <3>2. OnMedia(cur)' <=> OnMedia(cur)
      BY <1>1, <3>1 DEF OnMedia, SameOnDisk, coff
    <3> QED BY <1>1, <2>2, <3>1, <3>2 DEF DCore, Flight, Errored, OnMedia, coff
  <2> QED BY <2>1, <2>2
<1>7. MainWrites' /\ TrimZero'
  BY <1>2 DEF MainWrites, TrimZero
<1>8. DamageKnown'
  <2> SUFFICES ASSUME NEW off \in damaged, ~Errored
               PROVE  /\ seg_to_write # NULL /\ segments'[seg_to_write].offset = off
                      /\ wpc \in {"verify", "failed"}
    BY DEF DamageKnown, Errored
  <2>1. ~(pc = "wr_verify" /\ segments[cur].offset = off)
    BY <1>0
  <2>2. /\ seg_to_write # NULL /\ segments[seg_to_write].offset = off
        /\ wpc \in {"verify", "failed"}
    BY <2>1 DEF DCore, DamageKnown
  <2>3. segments'[seg_to_write].offset = segments[seg_to_write].offset
    BY <1>0, <1>1, <1>2, <2>2 DEF coff
  <2> QED BY <2>2, <2>3
\* What the segment holds was written last: it is not damaged, or all of it
\* was dirty.
<1>9. \A x \in IoBlocks(coff) : segments[cur].data[x] = logical[coff][x]
  <2>1. ~Dropping(cur)
    BY DEF Dropping, SegPcs
  <2>2. CASE coff \notin damaged
    BY <1>0, <1>3, <1>4, <2>1, <2>2 DEF DCore, DataRight, coff
  <2>3. CASE seg_to_write = cur
    BY <1>0, <1>3, <1>4, <2>1, <2>3 DEF DCore, DataRight, coff
  <2> QED BY <2>2, <2>3 DEF coff
<1>10. DataRight'
  <2> SUFFICES ASSUME NEW s \in InUse(Slot), NEW x \in segments'[s].valid \cap IoBlocks(segments'[s].offset)
               PROVE  \/ segments'[s].data[x] = logical[segments'[s].offset][x]
                      \/ /\ segments'[s].offset \in damaged /\ x \notin segments'[s].dirty
                         /\ s # seg_to_write
    BY <1>2, <1>4 DEF DataRight
  <2>1. CASE s = cur
    BY <1>2, <1>9, <2>1
  <2>2. CASE s # cur
    <3>1. ~Dropping(s) /\ segments'[s] = segments[s]
      BY <1>1, <1>4, <2>2 DEF Dropping, SegPcs
    <3> QED BY <3>1 DEF DCore, DataRight
  <2> QED BY <2>1, <2>2
<1>11. DiskRight'
  <2> SUFFICES ASSUME NEW off \in Segs \ damaged, NEW x \in IoBlocks(off),
                      ReadSegment(off)'[x] # logical[off][x]
               PROVE  \E s \in InUse(Slot) : /\ segments'[s].offset = off
                                             /\ x \in segments'[s].dirty \/ s = seg_to_write
    BY <1>4 DEF DiskRight
  <2>0. x \in Block
    BY <1>0
  <2>1. CASE off = coff
    <3>1. ReadSegment(off)'[x] = disk[off][x]
      BY <1>1, <2>0, <2>1 DEF ReadSegment
    <3>2. CASE OnMedia(cur)
      BY <1>9, <2>1, <3>1, <3>2 DEF OnMedia, SameOnDisk, coff
    <3>3. CASE ret = "stream" /\ seg_to_write = cur
      BY <1>2, <1>4, <2>1, <3>3
    <3> QED BY <3>2, <3>3
  <2>2. CASE off # coff
    <3>1. ReadSegment(off)'[x] = ReadSegment(off)[x]
      BY <1>1, <2>0, <2>2 DEF ReadSegment
    <3>2. PICK s \in InUse(Slot) : /\ segments[s].offset = off
                                   /\ x \in segments[s].dirty \/ s = seg_to_write
      BY <3>1 DEF DCore, DiskRight
    <3>3. s \in Slot \ {cur}
      BY <1>4, <2>2, <3>2 DEF coff
    <3> QED BY <1>1, <3>2, <3>3
  <2> QED BY <2>1, <2>2
<1>12. PastEndDirty'
  <2> SUFFICES ASSUME ~UsePthreads, NEW off \in Segs, PastEnd(off),
                      ~ \A x \in Block : logical[off][x] = Zero
               PROVE  \E s \in Dirty(Slot)' : segments'[s].offset = off
    BY DEF PastEndDirty
  <2>1. PICK s \in Dirty(Slot) : segments[s].offset = off
    BY DEF DCore, PastEndDirty
  <2>2. s # cur
    BY <2>1
  <2> QED BY <1>1, <1>4, <2>1, <2>2
<1> QED BY <1>5, <1>6, <1>7, <1>8, <1>10, <1>11, <1>12 DEF DCore

\* The main thread writes a segment that was not damaged before.
LEMMA PwriteData ==
  ASSUME EInv, SInv, Quiet, DCore, Quiet', wr_pwrite, pc' = "wr_verify",
         UNCHANGED <<segments, trimmed, seg_to_write, bad_offset, cur, wpc, woff, logical>>
  PROVE  DCore'
<1> DEFINE coff == segments[cur].offset
<1>0. /\ IInv /\ seg_to_write \in Slot \cup {NULL} /\ NULL \notin Slot /\ cur \in Slot
      /\ damaged \subseteq Segs
      /\ \A s \in Slot : segments[s].offset \in Segs /\ segments[s].data \in [Block -> Value]
      /\ \A o \in Segs : IoBlocks(o) \subseteq Block
  BY Ranges DEF EInv, IoBlocks
<1>1. pwrite_ok(coff, segments[cur].data) \/ pwrite_bad(coff, segments[cur].data)
  BY DEF wr_pwrite
<1>2. /\ \A o \in Segs \ {coff} : disk'[o] = disk[o] /\ (o \in damaged' <=> o \in damaged)
      /\ coff \notin damaged' <=> \A x \in IoBlocks(coff) : disk'[coff][x] = segments[cur].data[x]
      /\ damaged' \subseteq damaged \cup {coff}
  BY <1>0, <1>1, WriteEffect
<1>3. pc = "wr_pwrite"
  BY DEF wr_pwrite
<1>4. /\ seg_to_write # cur /\ segments[cur].in_use /\ segments[cur].valid = Block
      /\ seg_to_write # NULL => segments[seg_to_write].offset # coff
      /\ coff \notin damaged
  BY <1>0, <1>3, Apart DEF SegPcs, SInv, CurDirty, DCore, MainWrites
<1> HIDE DEF coff
<1>5. /\ InUse(Slot)' = InUse(Slot) /\ InUse(Slot) \subseteq Slot /\ cur \in InUse(Slot)
      /\ Dirty(Slot)' = Dirty(Slot)
      /\ \A s \in InUse(Slot) \ {cur} : segments[s].offset # coff
  BY <1>0, <1>4 DEF InUse, Dirty, SInv, Unique, coff
<1>6. CleanIsValid' /\ TrimZero'
  BY <1>3, <1>5 DEF DCore, CleanIsValid, TrimZero
<1>7. Flight'
  <2> SUFFICES ASSUME seg_to_write # NULL PROVE Flight'
    BY DEF Flight
  <2>1. segments[seg_to_write].offset \in Segs \ {coff}
    BY <1>0, <1>4
  <2>2. /\ OnMedia(seg_to_write)' <=> OnMedia(seg_to_write)
        /\ segments[seg_to_write].offset \in damaged' <=> segments[seg_to_write].offset \in damaged
    BY <1>2, <2>1 DEF OnMedia, SameOnDisk
  <2> QED BY <1>3, <2>2 DEF DCore, Flight, Dropping, Errored, OnMedia
<1>8. MainWrites'
  BY <1>2 DEF MainWrites, OnMedia, SameOnDisk, coff
<1>9. DamageKnown'
  BY <1>2, <1>3 DEF DCore, DamageKnown, Errored, coff
<1>10. \A x \in IoBlocks(coff) : segments[cur].data[x] = logical[coff][x]
  BY <1>0, <1>3, <1>4, <1>5 DEF DCore, DataRight, Dropping, coff
<1>11. DataRight'
  <2> SUFFICES ASSUME NEW s \in InUse(Slot), NEW x \in segments[s].valid \cap IoBlocks(segments[s].offset),
                      segments[s].data[x] # logical[segments[s].offset][x]
               PROVE  /\ segments[s].offset \in damaged' /\ x \notin segments[s].dirty
                      /\ s # seg_to_write /\ s # cur
    BY <1>5 DEF DataRight
  <2>1. s # cur
    BY <1>10 DEF coff
  <2>2. segments[s].offset \in Segs \ {coff} /\ ~Dropping(s)
    BY <1>0, <1>3, <1>5, <2>1 DEF Dropping
  <2> QED BY <1>2, <2>1, <2>2 DEF DCore, DataRight
<1>12. DiskRight'
  <2> SUFFICES ASSUME NEW off \in Segs \ damaged', NEW x \in IoBlocks(off),
                      ReadSegment(off)'[x] # logical[off][x]
               PROVE  \E s \in InUse(Slot) : /\ segments[s].offset = off
                                             /\ x \in segments[s].dirty \/ s = seg_to_write
    BY <1>5 DEF DiskRight
  <2>1. off \notin damaged /\ x \in Block
    BY <1>0, <1>2, <1>4
  <2>2. CASE ReadSegment(off)'[x] = ReadSegment(off)[x]
    BY <2>1, <2>2 DEF DCore, DiskRight
  <2>3. CASE ReadSegment(off)'[x] # ReadSegment(off)[x]
    <3>1. off = coff /\ off \notin trimmed
      BY <1>2, <2>1, <2>3 DEF ReadSegment
    <3>2. ReadSegment(off)'[x] = segments[cur].data[x]
      BY <1>2, <2>1, <3>1 DEF ReadSegment
    <3> QED BY <1>10, <3>1, <3>2
  <2> QED BY <2>2, <2>3
<1>13. PastEndDirty'
  BY <1>5 DEF DCore, PastEndDirty
<1> QED BY <1>6, <1>7, <1>8, <1>9, <1>11, <1>12, <1>13 DEF DCore

\* Steps of the main thread, when nothing fails.
LEMMA MainData ==
  ASSUME ~HwTrim, VerifyWrites, EInv, SInv, Quiet, DCore, Quiet', MainStep
  PROVE  DCore'
<1>0. /\ IInv /\ cur \in Slot /\ reported \in BOOLEAN
      /\ disk \in [Segs -> [Block -> Value]] /\ seg_to_write \in Slot \cup {NULL}
  BY Ranges DEF EInv
<1>k. UNCHANGED segments => \A t \in Slot : Kept(t)
  BY DEF Kept
<1>q. ~reported /\ ~reported'
  BY DEF Quiet
<1>1. CASE get_segment_hit
  <2>1. /\ \A t \in Slot : Kept(t)
        /\ pc = "get" /\ pc' \in {"get", "body"}
        /\ UNCHANGED <<trimmed, seg_to_write, bad_offset, wpc, woff, disk, damaged, logical>>
    BY <1>0, <1>1, HitShape
  <2>2. MainWrites'
    BY <2>1 DEF MainWrites
  <2> QED BY <2>1, <2>2, ControlStep
<1>2. CASE get_segment_miss
  <2>1. CASE pc' = "body"
    BY <1>2, <2>1, TakeData
  <2>2. CASE pc' # "body"
    <3>1. /\ pc = "get" /\ pc' = "valid" /\ UNCHANGED segments
          /\ UNCHANGED <<trimmed, seg_to_write, bad_offset, wpc, woff, disk, damaged, logical>>
      BY <1>0, <1>2, <2>2, MissShape
    <3>2. MainWrites'
      BY <3>1 DEF MainWrites
    <3> QED BY <1>k, <3>1, <3>2, ControlStep
  <2> QED BY <2>1, <2>2
<1>3. CASE block_segment_pwrite
  BY <1>3, CopyData
<1>4. CASE block_segment_pread \/ flush_segment
  BY <1>4, MergeData
<1>5. CASE FlushNext
  <2>1. /\ pc = "flush" /\ pc' \in {"idle", "valid"} /\ UNCHANGED segments
        /\ UNCHANGED <<trimmed, seg_to_write, bad_offset, wpc, woff, disk, damaged, logical>>
    BY <1>5 DEF FlushNext, Finish, cacheVars, asyncVars, writerVars, destVars
  <2>2. MainWrites'
    BY <2>1 DEF MainWrites
  <2> QED BY <1>k, <2>1, <2>2, ControlStep
<1>6. CASE DropSegment
  BY <1>6, DropData
<1>7. CASE TrimDone
  <2>1. /\ pc = "drop" /\ pc' = "idle" /\ todo = {} /\ UNCHANGED segments
        /\ UNCHANGED <<trimmed, seg_to_write, bad_offset, wpc, woff, damaged, logical>>
    BY <1>7 DEF TrimDone, Finish, cacheVars, asyncVars, writerVars
  <2>2. disk' = disk
    BY <1>0, <1>7 DEF TrimDone
  <2>3. MainWrites'
    BY <2>1 DEF MainWrites
  <2> QED BY <1>k, <2>1, <2>2, <2>3, ControlStep
<1>8. CASE ResetDone \/ FreeJoin
  BY <1>8 DEF ResetDone, FreeJoin, Quiet
<1>9. CASE async_check
  <2>1. /\ pc = "async_check" /\ pc' = "async_lock" /\ UNCHANGED segments
        /\ UNCHANGED <<trimmed, seg_to_write, bad_offset, wpc, woff, disk, damaged, logical>>
    BY <1>9, <1>q DEF async_check, Finish, cacheVars, asyncVars, writerVars, destVars
  <2>2. MainWrites'
    BY <2>1 DEF MainWrites
  <2> QED BY <1>k, <2>1, <2>2, ControlStep
<1>10. CASE async_lock
  <2>1. CASE seg_to_write = NULL
    BY <1>10, <2>1, HandOverData
  <2>2. CASE seg_to_write # NULL
    <3>1. /\ pc = "async_lock" /\ pc' = "async_lock" /\ UNCHANGED segments
          /\ UNCHANGED <<trimmed, seg_to_write, bad_offset, wpc, woff, disk, damaged, logical>>
      BY <1>10, <2>2 DEF async_lock, cacheVars, writerVars, destVars
    <3>2. MainWrites'
      BY <3>1 DEF MainWrites
    <3> QED BY <1>k, <3>1, <3>2, ControlStep
  <2> QED BY <2>1, <2>2
\* A write that failed has been reported.
<1>f. pc \in SegPcs => ~SegmentDone(FALSE)
  BY <1>0, <1>q, SegmentDoneCall
<1>11. CASE check_async_error
  <2>1. /\ pc = "recheck"
        /\ UNCHANGED <<seg_to_write, bad_offset, ret, wpc, woff, disk, damaged, logical>>
    BY <1>11 DEF check_async_error, asyncVars, writerVars, destVars
  <2>2. ~Errored /\ SegmentDone(TRUE)
    BY <1>11, <1>f, <2>1 DEF check_async_error, Errored, SegPcs
  <2>3. UsePthreads
    BY <2>1, ConstAssumption DEF SInv, NoThreadError
  <2>4. \/ OnMedia(cur) /\ segments[cur].offset \notin damaged /\ seg_to_write # cur
        \/ ret = "stream" /\ pc = "recheck" /\ ~Errored /\ seg_to_write = cur
    <3>1. CASE seg_to_write = cur
      BY <2>1, <2>2, <3>1 DEF DCore, MainWrites
    <3>2. CASE seg_to_write # cur
      BY <2>1, <2>2, <3>2 DEF DCore, MainWrites, DamageKnown
    <3> QED BY <3>1, <3>2
  <2> QED BY <2>1, <2>2, <2>3, <2>4, DoneData DEF SegPcs
<1>12. CASE sync_check
  <2>1. /\ pc = "sync_check" /\ pc' = "sync_lock" /\ UNCHANGED <<segments, cur>> /\ ~Errored
        /\ UNCHANGED <<trimmed, seg_to_write, bad_offset, wpc, woff, disk, damaged, logical>>
    BY <1>12, <1>f DEF sync_check, cacheVars, asyncVars, writerVars, destVars, SegPcs
  <2>2. segments[cur].offset \notin damaged
    BY <1>0, <2>1, Apart DEF SegPcs, DCore, DamageKnown
  <2>3. MainWrites'
    BY <2>1, <2>2 DEF MainWrites
  <2> QED BY <1>k, <2>1, <2>3, ControlStep
<1>13. CASE sync_lock
  <2>1. /\ pc = "sync_lock" /\ UNCHANGED <<segments, cur>>
        /\ pc' = IF InFlight(cur) THEN "sync_wait" ELSE "wr_begin"
        /\ UNCHANGED <<trimmed, seg_to_write, bad_offset, wpc, woff, disk, damaged, logical>>
    BY <1>13 DEF sync_lock, cacheVars, asyncVars, writerVars, destVars, histVars
  <2>2. pc' = "wr_begin"
    BY <1>0, <2>1, Apart DEF SegPcs, InFlight
  <2>3. MainWrites'
    BY <2>1, <2>2 DEF DCore, MainWrites
  <2> QED BY <1>k, <2>1, <2>2, <2>3, ControlStep
<1>14. CASE sync_wait
  BY <1>14 DEF sync_wait, DCore, MainWrites
<1>15. CASE wr_begin
  <2>1. /\ pc = "wr_begin" /\ UNCHANGED <<ret, wpc, woff, disk, damaged, logical, seg_to_write>>
        /\ ~PastEnd(segments[cur].offset) /\ UNCHANGED bad_offset
        /\ \/ SegmentDone(TRUE) /\ OnMedia(cur)
           \/ pc' = "wr_pwrite" /\ UNCHANGED <<segments, trimmed, cur>>
    BY <1>15, <1>f DEF wr_begin, SyncFailed, Skips, OnMedia, cacheVars, asyncVars, writerVars, destVars,
       SegPcs
  <2>2. segments[cur].offset \notin damaged /\ seg_to_write # cur
    BY <1>0, <2>1, Apart DEF SegPcs, DCore, MainWrites
  <2>3. CASE SegmentDone(TRUE) /\ OnMedia(cur)
    BY <2>1, <2>2, <2>3, DoneData DEF SegPcs
  <2>4. CASE pc' = "wr_pwrite" /\ UNCHANGED <<segments, trimmed, cur>>
    <3>1. MainWrites'
      BY <2>1, <2>2, <2>4 DEF MainWrites
    <3> QED BY <1>k, <2>1, <2>4, <3>1, ControlStep
  <2> QED BY <2>1, <2>3, <2>4
<1>16. CASE wr_pwrite
  <2>1. /\ pc = "wr_pwrite" /\ pc' = "wr_verify"
        /\ UNCHANGED <<segments, trimmed, seg_to_write, bad_offset, cur, wpc, woff, logical>>
    BY <1>16, <1>f DEF wr_pwrite, AfterPwrite, SyncFailed, cacheVars, asyncVars, writerVars, SegPcs
  <2> QED BY <1>16, <2>1, PwriteData
<1>17. CASE wr_verify
  <2>1. /\ pc = "wr_verify" /\ UNCHANGED <<ret, wpc, woff, disk, damaged, logical, seg_to_write>>
        /\ SegmentDone(TRUE) /\ OnMedia(cur) /\ UNCHANGED bad_offset
    BY <1>17, <1>f DEF wr_verify, SyncFailed, OnMedia, asyncVars, writerVars, SegPcs
  <2>2. /\ segments[cur].offset \notin damaged /\ seg_to_write # cur
        /\ ~PastEnd(segments[cur].offset)
    BY <1>0, <2>1, Apart DEF SegPcs, DCore, MainWrites, SInv, CurDirty
  <2> QED BY <2>1, <2>2, DoneData DEF SegPcs
<1> QED BY <1>1, <1>2, <1>3, <1>4, <1>5, <1>6, <1>7, <1>8, <1>9, <1>10, <1>11, <1>12, <1>13, <1>14,
           <1>15, <1>16, <1>17 DEF MainStep

\* Nothing of a segment behind the end is on the media.
LEMMA BehindTheEnd ==
  ASSUME NEW off \in Segs, PastEnd(off)
  PROVE  IoBlocks(off) = {}
<1>1. B \in Nat
  BY ConstAssumption, FS_CardinalityType DEF B
<1>2. off * B \in Int
  BY <1>1, ConstAssumption
<1> DEFINE start == off * B
<1>3. start \in Int /\ EndOffset \in Nat /\ start > EndOffset /\ EndOffset # 0
  BY <1>2, ConstAssumption DEF PastEnd
<1>4. IoBlocks(off) = {b \in Block : EndOffset = 0 \/ start + b < EndOffset}
  BY DEF IoBlocks
<1> HIDE DEF start
<1>5. \A b \in Block : ~(start + b < EndOffset)
  BY <1>3, ConstAssumption
<1> QED BY <1>3, <1>4, <1>5

\* The writer lets go of a segment: it is on the media, or still dirty because
\* do_async_write has not looked again.
LEMMA ReleaseData ==
  ASSUME EInv, SInv, Quiet, DCore, seg_to_write # NULL, seg_to_write' = NULL,
         wpc = "done" \/ (wpc = "top" /\ Errored), wpc' \in {"top", "exited"},
         UNCHANGED <<segments, trimmed, bad_offset, pc, op, cur, ret, todo, disk, damaged, logical>>
  PROVE  DCore'
<1>0. /\ IInv /\ seg_to_write \in Slot /\ seg_to_write \in InUse(Slot) /\ NULL \notin Slot
      /\ segments[seg_to_write].valid = Block
      /\ \A o \in Segs : IoBlocks(o) \subseteq Block
  BY Ranges, Apart DEF EInv, IoBlocks, InUse
<1>1. InUse(Slot)' = InUse(Slot) /\ Dirty(Slot)' = Dirty(Slot) /\ InUse(Slot) \subseteq Slot
  BY DEF InUse, Dirty
<1>2. CleanIsValid' /\ Flight' /\ DamageKnown' /\ TrimZero' /\ PastEndDirty'
  BY <1>1 DEF DCore, CleanIsValid, Flight, DamageKnown, TrimZero, PastEndDirty, Errored
<1>3. MainWrites'
  BY DEF DCore, MainWrites, Flight, Errored, OnMedia, SameOnDisk
<1>4. DataRight'
  BY <1>0, <1>1 DEF DCore, DataRight, Dropping
<1>5. DiskRight'
  <2> SUFFICES ASSUME NEW off \in Segs \ damaged, NEW x \in IoBlocks(off)
               PROVE  \/ ReadSegment(off)[x] = logical[off][x]
                      \/ \E s \in InUse(Slot) : segments[s].offset = off /\ x \in segments[s].dirty
    BY <1>1 DEF DiskRight, ReadSegment
  <2>1. x \in Block
    BY <1>0
  <2>2. CASE segments[seg_to_write].offset # off
    BY <2>2 DEF DCore, DiskRight
  <2>3. CASE segments[seg_to_write].offset = off /\ segments[seg_to_write].dirty # {}
    <3>1. segments[seg_to_write].dirty = Block
      BY <2>3 DEF DCore, Flight, SInv, CurDirty, SegPcs
    <3> QED BY <1>0, <2>1, <2>3, <3>1
  <2>4. CASE segments[seg_to_write].offset = off /\ segments[seg_to_write].dirty = {}
    <3>1. wpc = "done"
      <4> SUFFICES ASSUME wpc = "top", Errored PROVE FALSE
        OBVIOUS
      <4>1. pc = "recheck" /\ ret = "stream"
        BY DEF DCore, Flight
      <4>2. seg_to_write = cur
        BY <4>1 DEF DCore, MainWrites
      <4> QED BY <2>4, <4>1, <4>2 DEF SInv, CurDirty, SegPcs
    <3>2. OnMedia(seg_to_write)
      BY <2>4, <3>1 DEF DCore, Flight
    <3>3. CASE Dropping(seg_to_write)
      BY <2>1, <2>4, <3>3 DEF DCore, TrimZero, Dropping, ReadSegment
    <3>4. CASE ~Dropping(seg_to_write)
      <4>1. off \notin trimmed
        BY <2>4, <3>4 DEF DCore, Flight
      <4>2. segments[seg_to_write].data[x] = logical[off][x]
        BY <1>0, <2>1, <2>4, <3>4 DEF DCore, DataRight
      <4>3. disk[off][x] = segments[seg_to_write].data[x]
        BY <2>4, <3>2 DEF OnMedia, SameOnDisk
      <4> QED BY <2>1, <4>1, <4>2, <4>3 DEF ReadSegment
    <3> QED BY <3>3, <3>4
  <2> QED BY <2>2, <2>3, <2>4
<1> QED BY <1>2, <1>3, <1>4, <1>5 DEF DCore

\* The writer writes its segment: no other lies at the same offset.
LEMMA WriterPwriteData ==
  ASSUME VerifyWrites, EInv, SInv, Quiet, DCore, writer_pwrite
  PROVE  DCore'
<1> DEFINE w == seg_to_write
<1>0. /\ IInv /\ w \in Slot \cup {NULL} /\ NULL \notin Slot /\ cur \in Slot
      /\ damaged \subseteq Segs
      /\ \A s \in Slot : segments[s].offset \in Segs /\ segments[s].data \in [Block -> Value]
      /\ \A o \in Segs : IoBlocks(o) \subseteq Block
  BY Ranges DEF EInv, IoBlocks
<1>1. /\ wpc = "pwrite" /\ wpc' \in {"verify", "failed"}
      /\ UNCHANGED <<segments, trimmed, seg_to_write, bad_offset, pc, op, cur, ret, todo, woff, logical>>
  BY DEF writer_pwrite, AfterWriterPwrite, WriterUnchanged, cacheVars, asyncVars, mainVars, histVars
<1>2. w # NULL
  BY <1>0, <1>1 DEF IInv, WriterHasSegment
<1>3. /\ w \in Slot /\ w \in InUse(Slot) /\ segments[w].valid = Block
      /\ woff = segments[w].offset /\ woff \in Segs /\ ~Errored
  BY <1>0, <1>1, <1>2, Apart DEF DCore, Flight, InUse
<1>4. pwrite_ok(woff, segments[w].data) \/ pwrite_bad(woff, segments[w].data)
  BY DEF writer_pwrite
<1>5. /\ \A o \in Segs \ {woff} : disk'[o] = disk[o] /\ (o \in damaged' <=> o \in damaged)
      /\ woff \notin damaged' <=> \A x \in IoBlocks(woff) : disk'[woff][x] = segments[w].data[x]
      /\ damaged' \subseteq damaged \cup {woff}
  BY <1>0, <1>3, <1>4, WriteEffect
<1>6. /\ InUse(Slot)' = InUse(Slot) /\ InUse(Slot) \subseteq Slot /\ Dirty(Slot)' = Dirty(Slot)
      /\ \A s \in InUse(Slot) \ {w} : segments[s].offset \in Segs \ {woff}
  BY <1>0, <1>1, <1>3 DEF InUse, Dirty, SInv, Unique
<1>7. CleanIsValid' /\ TrimZero' /\ PastEndDirty'
  BY <1>1, <1>6 DEF DCore, CleanIsValid, TrimZero, PastEndDirty
<1>8. Flight'
  <2>1. OnMedia(w)' <=> woff \notin damaged'
    BY <1>1, <1>3, <1>5 DEF OnMedia, SameOnDisk
  <2> QED BY <1>1, <1>2, <1>3, <2>1 DEF DCore, Flight, Dropping, Errored, OnMedia
<1>9. MainWrites'
  <2>1. pc \in {"sync_lock", "wr_begin", "wr_pwrite", "wr_verify"} => segments[cur].offset \in Segs \ {woff}
    BY <1>0, <1>2, <1>3, Apart DEF SegPcs
  <2>2. pc = "wr_verify" => (OnMedia(cur)' <=> OnMedia(cur))
    BY <1>1, <1>5, <2>1 DEF OnMedia, SameOnDisk
  <2> QED BY <1>1, <1>2, <1>5, <2>1, <2>2 DEF DCore, MainWrites, OnMedia
<1>10. DamageKnown'
  BY <1>1, <1>2, <1>3, <1>5 DEF DCore, DamageKnown, Errored
<1>11. DataRight'
  <2> SUFFICES ASSUME NEW s \in InUse(Slot), ~Dropping(s),
                      NEW x \in segments[s].valid \cap IoBlocks(segments[s].offset),
                      segments[s].data[x] # logical[segments[s].offset][x]
               PROVE  /\ segments[s].offset \in damaged' /\ x \notin segments[s].dirty
                      /\ s # w /\ ~(pc = "wr_verify" /\ s = cur)
    BY <1>1, <1>6 DEF DataRight, Dropping
  <2>1. /\ segments[s].offset \in damaged /\ x \notin segments[s].dirty
        /\ s # w /\ ~(pc = "wr_verify" /\ s = cur)
    BY DEF DCore, DataRight
  <2> QED BY <1>5, <1>6, <2>1
<1>12. DiskRight'
  <2> SUFFICES ASSUME NEW off \in Segs \ damaged', NEW x \in IoBlocks(off)
               PROVE  \/ ReadSegment(off)'[x] = logical[off][x]
                      \/ \E s \in InUse(Slot) : /\ segments[s].offset = off
                                                /\ x \in segments[s].dirty \/ s = w
    BY <1>1, <1>6 DEF DiskRight
  <2>1. CASE off = woff
    BY <1>3, <2>1
  <2>2. CASE off # woff
    <3>1. off \notin damaged /\ ReadSegment(off)' = ReadSegment(off)
      BY <1>1, <1>5, <2>2 DEF ReadSegment
    <3> QED BY <3>1 DEF DCore, DiskRight
  <2> QED BY <2>1, <2>2
<1> QED BY <1>7, <1>8, <1>9, <1>10, <1>11, <1>12 DEF DCore

\* The writer thread, when nothing has been reported.
LEMMA WriterData ==
  ASSUME VerifyWrites, EInv, SInv, Quiet, DCore, WriterStep
  PROVE  DCore'
<1>0. /\ IInv /\ seg_to_write \in Slot \cup {NULL} /\ NULL \notin Slot
      /\ \A s \in Slot : segments[s].offset \in Segs
      /\ NULL \notin Segs
  BY Ranges, ConstAssumption DEF EInv, NULL
<1>u. /\ UNCHANGED <<segments, trimmed, pc, op, cur, ret, todo, logical>>
      /\ InUse(Slot)' = InUse(Slot) /\ Dirty(Slot)' = Dirty(Slot)
  BY DEF WriterStep, writer_top, writer_begin, writer_pwrite, writer_verify, writer_failed, writer_done,
     WriterUnchanged, cacheVars, mainVars, histVars, InUse, Dirty
\* The writer moves on and leaves its segment and the media alone.
<1>m. ASSUME UNCHANGED <<seg_to_write, disk, damaged>>, Flight', DamageKnown', MainWrites'
      PROVE  DCore'
  BY <1>u, <1>m DEF DCore, CleanIsValid, TrimZero, DataRight, DiskRight, PastEndDirty, Dropping,
     ReadSegment
<1>1. CASE writer_top
  <2>1. wpc = "top" /\ UNCHANGED <<bad_offset, woff, disk, damaged>>
    BY <1>1 DEF writer_top, destVars
  <2>2. CASE HasWork /\ Errored /\ SkipAfterError
    <3>1. seg_to_write # NULL /\ seg_to_write' = NULL /\ wpc' \in {"top", "exited"}
      BY <2>2 DEF HasWork, SkipAfterError, ExitOrWait
    <3> QED BY <1>u, <2>1, <2>2, <3>1, ReleaseData
  <2>3. CASE ~(HasWork /\ Errored /\ SkipAfterError)
    <3>1. /\ UNCHANGED seg_to_write
          /\ \/ seg_to_write = NULL /\ wpc' \in {"top", "exited"}
             \/ ~Errored /\ wpc' = "begin"
      BY <1>1, <2>1, <2>3 DEF writer_top, HasWork
    <3>2. Flight' /\ DamageKnown' /\ MainWrites'
      BY <1>u, <2>1, <3>1 DEF DCore, Flight, DamageKnown, MainWrites, Dropping, Errored, OnMedia, SameOnDisk
    <3> QED BY <1>m, <2>1, <3>1, <3>2
  <2> QED BY <2>2, <2>3
<1>2. CASE writer_begin
  <2>1. /\ wpc = "begin" /\ UNCHANGED <<seg_to_write, bad_offset, disk, damaged>>
        /\ woff' = segments[seg_to_write].offset
        /\ \/ wpc' = "failed" /\ PastEnd(segments[seg_to_write].offset)
           \/ wpc' = "done" /\ OnMedia(seg_to_write)
           \/ wpc' = "pwrite"
    BY <1>2 DEF writer_begin, asyncVars, destVars, Skips, OnMedia
  <2>2. seg_to_write \in Slot
    BY <1>0, <2>1 DEF IInv, WriterHasSegment
  <2>3. PastEnd(segments[seg_to_write].offset) => OnMedia(seg_to_write)
    BY <1>0, <2>2, BehindTheEnd DEF OnMedia, SameOnDisk
  <2>4. Flight' /\ DamageKnown' /\ MainWrites'
    BY <1>u, <2>1, <2>3 DEF DCore, Flight, DamageKnown, MainWrites, Dropping, Errored, OnMedia, SameOnDisk
  <2> QED BY <1>m, <2>1, <2>4
<1>3. CASE writer_pwrite
  BY <1>3, WriterPwriteData
<1>4. CASE writer_verify
  <2>1. /\ wpc = "verify" /\ UNCHANGED <<seg_to_write, bad_offset, woff, disk, damaged>>
        /\ \/ wpc' = "done" /\ SameOnDisk(woff, segments[seg_to_write].data)
           \/ wpc' = "failed"
    BY <1>4 DEF writer_verify, asyncVars
  <2>2. seg_to_write # NULL
    BY <1>0, <2>1 DEF IInv, WriterHasSegment
  <2>3. woff = segments[seg_to_write].offset
    BY <2>1, <2>2 DEF DCore, Flight
  <2>4. wpc' = "done" => OnMedia(seg_to_write)
    BY <2>1, <2>3 DEF OnMedia
  <2>5. OnMedia(seg_to_write) \/ segments[seg_to_write].offset \in damaged
    BY <2>1, <2>2 DEF DCore, Flight
  <2>6. OnMedia(seg_to_write) => segments[seg_to_write].offset \notin damaged
    BY <2>1, <2>2 DEF DCore, Flight
  <2>7. Flight' /\ MainWrites'
    BY <1>u, <2>1, <2>4, <2>5 DEF DCore, Flight, MainWrites, Dropping, Errored, OnMedia, SameOnDisk
  <2>8. DamageKnown'
    BY <1>u, <2>1, <2>4, <2>6 DEF DCore, DamageKnown, Errored
  <2> QED BY <1>m, <2>1, <2>7, <2>8
<1>5. CASE writer_failed
  <2>1. /\ wpc = "failed" /\ wpc' = "done" /\ UNCHANGED <<seg_to_write, woff, disk, damaged>>
        /\ bad_offset' = segments[seg_to_write].offset
    BY <1>5 DEF writer_failed, destVars
  <2>2. seg_to_write \in Slot
    BY <1>0, <2>1 DEF IInv, WriterHasSegment
  <2>3. Errored'
    BY <1>0, <2>1, <2>2 DEF Errored
  <2>4. Flight' /\ DamageKnown' /\ MainWrites'
    BY <1>u, <2>1, <2>3 DEF DCore, Flight, DamageKnown, MainWrites, Dropping, OnMedia, SameOnDisk
  <2> QED BY <1>m, <2>1, <2>4
<1>6. CASE writer_done
  <2>1. /\ wpc = "done" /\ seg_to_write' = NULL /\ wpc' \in {"top", "exited"}
        /\ UNCHANGED <<bad_offset, disk, damaged>>
    BY <1>6 DEF writer_done, ExitOrWait, destVars
  <2>2. seg_to_write # NULL
    BY <1>0, <2>1 DEF IInv, WriterHasSegment
  <2> QED BY <1>u, <2>1, <2>2, ReleaseData
<1> QED BY <1>1, <1>2, <1>3, <1>4, <1>5, <1>6 DEF WriterStep

----------------------------------------------------------------------------
(* The invariant                                                           *)

\* Starting a call changes no data but what a trim takes away.
LEMMA StartData ==
  ASSUME EInv, SInv, Quiet, DCore, Quiet', StartCall
  PROVE  DCore'
<1>1. CASE block_cache_trim
  BY <1>1, TrimData
<1>2. CASE ~block_cache_trim
  <2>1. /\ pc = "idle" /\ pc' \in {"get", "flush", "join"} /\ UNCHANGED segments
        /\ UNCHANGED <<trimmed, seg_to_write, bad_offset, wpc, woff, disk, damaged, logical>>
    BY <1>2, StartShape DEF Quiet
  <2>2. MainWrites' /\ \A t \in Slot : Kept(t)
    BY <2>1 DEF MainWrites, Kept
  <2> QED BY <2>1, <2>2, ControlStep
<1> QED BY <1>1, <1>2

\* After block_cache_reset the cache is empty and the media is what counts.
LEMMA ResetData ==
  ASSUME EInv, SInv, ResetDone
  PROVE  DCore'
<1>0. /\ IInv /\ seg_to_write \in Slot \cup {NULL}
      /\ \A o \in Segs : IoBlocks(o) \subseteq Block
  BY Ranges DEF EInv, IoBlocks
<1>1. /\ pc = "drop" /\ op.name = "reset" /\ todo = {} /\ pc' = "idle" /\ ~Errored'
      /\ UNCHANGED <<segments, trimmed, seg_to_write, wpc, woff, disk>>
      /\ damaged' = {} /\ logical' = [off \in Segs |-> ReadSegment(off)]
  BY DEF ResetDone, Errored, cacheVars, writerVars
<1>2. InUse(Slot) = {}
  BY <1>1 DEF EInv, ResetVisits
<1>3. seg_to_write = NULL
  BY <1>0, <1>2 DEF IInv, Handoff, WriterSegment, InUse
<1>4. InUse(Slot)' = {}
  BY <1>1, <1>2 DEF InUse
<1>5. CleanIsValid' /\ Flight' /\ MainWrites' /\ DamageKnown' /\ TrimZero' /\ DataRight'
  BY <1>1, <1>3, <1>4 DEF CleanIsValid, Flight, MainWrites, DamageKnown, TrimZero, DataRight
<1>6. DiskRight'
  BY <1>0, <1>1 DEF DiskRight, ReadSegment
<1>7. \A off \in Segs : PastEnd(off) => \A x \in Block : logical'[off][x] = Zero
  BY <1>1, BehindTheEnd DEF ReadSegment
<1>8. PastEndDirty'
  BY <1>7 DEF PastEndDirty
<1> QED BY <1>5, <1>6, <1>8 DEF DCore

\* At first nothing is cached and the media is what counts.
LEMMA InitData == Init => DCore
<1> SUFFICES ASSUME Init PROVE DCore
  OBVIOUS
<1>1. /\ InUse(Slot) = {} /\ seg_to_write = NULL /\ pc = "idle" /\ damaged = {}
      /\ logical = [off \in Segs |-> ReadSegment(off)]
  BY DEF Init, InUse
<1>2. CleanIsValid /\ Flight /\ MainWrites /\ DamageKnown /\ TrimZero /\ DataRight
  BY <1>1 DEF CleanIsValid, Flight, MainWrites, DamageKnown, TrimZero, DataRight
<1>3. DiskRight
  BY <1>1 DEF DiskRight
<1>4. \A off \in Segs : PastEnd(off) => \A x \in Block : logical[off][x] = Zero
  BY <1>1, BehindTheEnd DEF ReadSegment
<1>5. PastEndDirty
  BY <1>4 DEF PastEndDirty
<1> QED BY <1>2, <1>3, <1>5 DEF DCore

\* Nothing becomes quiet again but by a reset.
LEMMA QuietBefore ==
  ASSUME EInv, [Next]_vars, Quiet'
  PROVE  Quiet \/ ResetDone
<1>0. IInv /\ WhichCall /\ reported \in BOOLEAN /\ reused \in BOOLEAN
  BY Ranges DEF EInv
<1>1. CASE StartCall
  BY <1>1, StartShape DEF Quiet
<1>2. CASE MainStep
  <2>1. (~reported \/ ResetDone) /\ op'.name = op.name
    BY <1>0, <1>2, MainCall DEF Quiet
  <2>2. reused => reused'
    BY <1>2, <1>0 DEF MainStep, get_segment_hit, get_segment_miss, block_segment_pwrite, block_segment_pread,
       FlushNext, flush_segment, DropSegment, TrimDone, ResetDone, FreeJoin, async_check, async_lock,
       check_async_error, sync_check, sync_lock, sync_wait, wr_begin, wr_pwrite, wr_verify, histVars
  <2>3. pc # "freed"
    BY <1>2 DEF MainStep, get_segment_hit, get_segment_miss, block_segment_pwrite, block_segment_pread,
       FlushNext, flush_segment, DropSegment, TrimDone, ResetDone, FreeJoin, async_check, async_lock,
       check_async_error, sync_check, sync_lock, sync_wait, wr_begin, wr_pwrite, wr_verify
  <2>4. pc = "drop" /\ op.name = "reset" => pc' = "drop" \/ ResetDone
    BY <1>2 DEF MainStep, get_segment_hit, get_segment_miss, block_segment_pwrite, block_segment_pread,
       FlushNext, flush_segment, DropSegment, TrimDone, ResetDone, FreeJoin, async_check, async_lock,
       check_async_error, sync_check, sync_lock, sync_wait, wr_begin, wr_pwrite, wr_verify
  <2> QED BY <2>1, <2>2, <2>3, <2>4 DEF Quiet
<1>3. CASE WriterStep \/ SpuriousWakeup \/ Freed \/ UNCHANGED vars
  <2>1. UNCHANGED <<pc, op, reported, reused>>
    <3>1. CASE WriterStep
      BY <3>1, WriterShape
    <3>2. CASE SpuriousWakeup \/ Freed \/ UNCHANGED vars
      BY <3>2 DEF SpuriousWakeup, Freed, vars, mainVars, histVars
    <3> QED BY <1>3, <3>1, <3>2
  <2> QED BY <2>1 DEF Quiet
<1> QED BY <1>1, <1>2, <1>3 DEF Next

\* Every step keeps the invariant.
LEMMA StepData ==
  ASSUME ~HwTrim, VerifyWrites, DInv, [Next]_vars
  PROVE  DInv'
<1>1. EInv /\ SInv /\ (Quiet => DCore)
  BY DEF DInv
<1>2. EInv' /\ SInv'
  BY <1>1, StepErrors, StepStructure
<1>3. ASSUME Quiet' PROVE DCore'
  <2>1. CASE ResetDone
    BY <1>1, <2>1, ResetData
  <2>2. CASE ~ResetDone
    <3>1. Quiet /\ DCore
      BY <1>1, <1>3, <2>2, QuietBefore
    <3>2. CASE StartCall
      BY <1>1, <1>3, <3>1, <3>2, StartData
    <3>3. CASE MainStep
      BY <1>1, <1>3, <3>1, <3>3, MainData
    <3>4. CASE WriterStep
      BY <1>1, <3>1, <3>4, WriterData
    <3>5. CASE SpuriousWakeup \/ Freed \/ UNCHANGED vars
      <4>1. UNCHANGED <<segments, trimmed, seg_to_write, bad_offset, pc, op, cur, ret, todo, wpc, woff,
                        disk, damaged, logical>>
        BY <3>5 DEF SpuriousWakeup, Freed, vars, cacheVars, asyncVars, mainVars, writerVars, destVars, histVars
      <4>2. InUse(Slot)' = InUse(Slot) /\ Dirty(Slot)' = Dirty(Slot)
        BY <4>1 DEF InUse, Dirty
      <4> QED BY <3>1, <4>1, <4>2 DEF DCore, CleanIsValid, Flight, MainWrites, DamageKnown, TrimZero,
                 DataRight, DiskRight, PastEndDirty, Dropping, ReadSegment, OnMedia, SameOnDisk, Errored
    <3> QED BY <3>2, <3>3, <3>4, <3>5 DEF Next
  <2> QED BY <2>1, <2>2
<1> QED BY <1>2, <1>3 DEF DInv

\* The invariant holds in every reachable state, when writes are read back and
\* trims are not passed on to the device.
THEOREM DataInvariant ==
  ASSUME ~HwTrim, VerifyWrites
  PROVE  Spec => []DInv
<1>1. Init => DInv
  BY InitErrors, InitStructure, InitData DEF DInv
<1>2. DInv /\ [Next]_vars => DInv'
  BY StepData
<1> QED BY <1>1, <1>2, PTL DEF Spec

----------------------------------------------------------------------------
(* What a reader sees, what a flush means                                  *)

\* block_cache_pread returns what was written last: one slot holds the segment,
\* with the last write or what was read from the media.
THEOREM ReadersSeeLastWrite ==
  ASSUME ~HwTrim, VerifyWrites
  PROVE  Spec => []Coherent
<1>1. ASSUME DInv PROVE Coherent
  <2> SUFFICES ASSUME pc = "idle", ~reported, ~reused,
                      NEW off \in Segs \ damaged, NEW x \in IoBlocks(off)
               PROVE  View(off)[x] = logical[off][x]
    BY DEF Coherent
  <2>0. /\ DCore /\ SInv /\ x \in Block
    BY <1>1 DEF DInv, Quiet, IoBlocks
  <2>1. \A s \in Cached(off) : s \in Slot /\ segments[s].in_use /\ s \in InUse(Slot) /\ segments[s].offset = off
    BY DEF Cached, InUse
  <2>2. CASE \E s \in Cached(off) : x \in segments[s].valid
    <3>1. PICK s \in Cached(off) : x \in segments[s].valid
      BY <2>2
    <3>2. \A t \in Cached(off) : t = s
      BY <2>0, <2>1, <3>1 DEF SInv, Unique
    <3> DEFINE t == CHOOSE u \in Cached(off) : TRUE
    <3>3. t = s
      BY <3>1, <3>2
    <3>4. View(off)[x] = segments[s].data[x]
      BY <2>0, <2>2, <3>3 DEF View
    <3>5. segments[s].data[x] = logical[off][x]
      BY <2>0, <2>1, <3>1 DEF DCore, DataRight, Dropping
    <3> QED BY <3>4, <3>5
  <2>3. CASE ~\E s \in Cached(off) : x \in segments[s].valid
    <3>1. View(off)[x] = ReadSegment(off)[x]
      BY <2>0, <2>3 DEF View
    <3>2. \A s \in InUse(Slot) : segments[s].offset = off => x \notin segments[s].dirty /\ s # seg_to_write
      <4> SUFFICES ASSUME NEW s \in InUse(Slot), segments[s].offset = off
                   PROVE  x \notin segments[s].dirty /\ s # seg_to_write
        OBVIOUS
      <4>1. s \in Cached(off) /\ s \in Slot
        BY DEF Cached, InUse
      <4>2. x \notin segments[s].valid
        BY <2>3, <4>1
      <4>3. segments[s].dirty \subseteq segments[s].valid
        BY <1>1, <4>1, Ranges DEF DInv, EInv
      <4>4. seg_to_write # NULL => segments[seg_to_write].valid = Block
        BY <1>1 DEF DInv, EInv, IInv, Handoff, WriterSegment
      <4>5. NULL \notin Slot
        BY <1>1, Ranges DEF DInv, EInv
      <4> QED BY <2>0, <4>1, <4>2, <4>3, <4>4, <4>5
    <3> QED BY <2>0, <3>1, <3>2 DEF DCore, DiskRight
  <2> QED BY <2>2, <2>3
<1> QED BY <1>1, DataInvariant, PTL

\* The flush loop writes segments in the order in which they were used: those
\* used before the current one are clean, hence valid and on the media.
THEOREM FlushKeepsOrder ==
  ASSUME ~HwTrim, VerifyWrites
  PROVE  Spec => []FlushOrder
<1>1. ASSUME DInv PROVE FlushOrder
  <2> SUFFICES ASSUME pc = "wr_pwrite", ret = "flush", ~reported, ~reused,
                      NEW t \in InUse(Slot), segments[t].last_access < segments[cur].last_access,
                      segments[t].offset \notin trimmed \cup damaged, ~InFlight(t),
                      NEW x \in IoBlocks(segments[t].offset)
               PROVE  disk[segments[t].offset][x] = segments[t].data[x]
    BY DEF FlushOrder, SameOnDisk
  <2>0. /\ DCore /\ SInv /\ t \in Slot /\ x \in Block /\ segments[t].in_use
        /\ cur \in Slot /\ segments[t].offset \in Segs
        /\ segments[t].last_access \in Nat /\ segments[cur].last_access \in Nat
        /\ \A s \in Slot : segments[s].last_access \in Nat
    BY <1>1, Ranges DEF DInv, EInv, Quiet, InUse, IoBlocks
  <2>1. t \notin todo \cup {cur}
    BY <2>0 DEF SInv, FlushVisits, SegPcs
  <2>2. t \notin Dirty(Slot)
    BY <2>0, <2>1 DEF SInv, FlushVisits, SegPcs
  <2>3. segments[t].dirty = {}
    BY <2>2 DEF Dirty
  <2>4. segments[t].valid = Block
    BY <2>0, <2>3 DEF DCore, CleanIsValid
  <2>5. segments[t].data[x] = logical[segments[t].offset][x]
    BY <2>0, <2>4 DEF DCore, DataRight, Dropping
  <2>6. ~\E s \in InUse(Slot) : /\ segments[s].offset = segments[t].offset
                                /\ x \in segments[s].dirty \/ s = seg_to_write
    <3> SUFFICES ASSUME NEW s \in InUse(Slot), segments[s].offset = segments[t].offset
                 PROVE  x \notin segments[s].dirty /\ s # seg_to_write
      OBVIOUS
    <3>1. s = t
      BY <2>0 DEF SInv, Unique, InUse
    <3> QED BY <2>3, <3>1 DEF InFlight
  <2>7. ReadSegment(segments[t].offset)[x] = logical[segments[t].offset][x]
    BY <2>0, <2>6 DEF DCore, DiskRight
  <2>8. ReadSegment(segments[t].offset)[x] = disk[segments[t].offset][x]
    BY <2>0 DEF ReadSegment
  <2> QED BY <2>5, <2>7, <2>8
<1> QED BY <1>1, DataInvariant, PTL

\* What block_cache_free leaves behind after a flush: nothing is dirty and the
\* writer has nothing, so the media holds what was written.
LEMMA FreeJoinData ==
  ASSUME DInv, FreeJoin, op.name = "flush", ~reported, ~reused
  PROVE  /\ Dirty(Slot) = {} /\ seg_to_write = NULL /\ DCore /\ wpc = "exited" /\ pc = "join"
         /\ UNCHANGED <<trimmed, bad_offset, op, disk, damaged, logical, reported, reused>>
<1>1. /\ pc = "join" /\ wpc = "exited"
      /\ UNCHANGED <<trimmed, bad_offset, op, disk, damaged, logical, reported, reused>>
  BY DEF FreeJoin, asyncVars, destVars, histVars
<1>2. Dirty(Slot) = {}
  BY <1>1 DEF DInv, SInv, FlushVisits
<1>3. seg_to_write = NULL
  BY <1>1 DEF DInv, EInv, IInv, Handoff, WriterExit
<1>4. DCore
  BY <1>1 DEF DInv, Quiet
<1> QED BY <1>1, <1>2, <1>3, <1>4

\* block_cache_free ends the run: from then on nothing changes.
LEMMA AfterFree ==
  ASSUME EInv, [Next]_vars, pc' = "freed"
  PROVE  FreeJoin \/ UNCHANGED <<pc, op, reported, reused, trimmed, bad_offset, disk, damaged, logical>>
<1>0. IInv /\ WhichCall
  BY DEF EInv
<1>1. CASE StartCall
  BY <1>1, StartShape
<1>2. CASE MainStep /\ ~FreeJoin
  BY <1>2 DEF MainStep, get_segment_hit, get_segment_miss, UseSlot, block_segment_pwrite,
     block_segment_pread, NextChunk, Finish, FlushNext, flush_segment, SegmentDone, DropSegment, TrimDone,
     ResetDone, async_check, async_lock, check_async_error, sync_check, sync_lock, sync_wait, wr_begin,
     wr_pwrite, wr_verify, SyncFailed, AfterPwrite
<1>3. CASE WriterStep
  <2>1. pc = "freed"
    BY <1>3, WriterShape
  <2>2. wpc = "exited"
    BY <1>0, <2>1 DEF IInv, Handoff, WriterExit
  <2> QED BY <1>3, <2>2 DEF WriterStep, writer_top, writer_begin, writer_pwrite, writer_verify,
             writer_failed, writer_done
<1>4. CASE SpuriousWakeup \/ Freed \/ UNCHANGED vars
  BY <1>4 DEF SpuriousWakeup, Freed, vars, cacheVars, asyncVars, mainVars, destVars, histVars
<1> QED BY <1>1, <1>2, <1>3, <1>4 DEF Next

\* After a successful flush and block_cache_free everything written is on the
\* media, whatever the writer thread still had in its hands.
THEOREM SuccessIsDurable ==
  ASSUME ~HwTrim, VerifyWrites
  PROVE  Spec => []Durable
<1>1. Init => Durable
  BY DEF Init, Durable, Success
<1>2. ASSUME DInv, Durable, [Next]_vars PROVE Durable'
  <2> SUFFICES ASSUME Success', ~reused'
               PROVE  (\A off \in Segs \ (damaged \cup trimmed) :
                         \A x \in IoBlocks(off) : disk[off][x] = logical[off][x])'
    BY DEF Durable
  <2>1. CASE FreeJoin
    <3>0. op.name = "flush" /\ ~reported /\ ~reused
      BY <2>1 DEF FreeJoin, Success, histVars
    <3>1. /\ Dirty(Slot) = {} /\ seg_to_write = NULL /\ DCore
          /\ UNCHANGED <<trimmed, disk, damaged, logical>>
      BY <1>2, <2>1, <3>0, FreeJoinData
    <3> SUFFICES ASSUME NEW off \in Segs \ (damaged \cup trimmed), NEW x \in IoBlocks(off)
                 PROVE  disk[off][x] = logical[off][x]
      BY <3>1
    <3>2. \A s \in InUse(Slot) : x \notin segments[s].dirty /\ s # seg_to_write
      <4>1. \A s \in InUse(Slot) : s \in Slot /\ segments[s].dirty = {}
        BY <3>1 DEF Dirty, InUse
      <4>2. NULL \notin Slot
        BY <1>2, Ranges DEF DInv, EInv
      <4> QED BY <3>1, <4>1, <4>2
    <3>3. ReadSegment(off)[x] = logical[off][x]
      BY <3>1, <3>2 DEF DCore, DiskRight
    <3> QED BY <3>3 DEF ReadSegment, IoBlocks
  <2>2. CASE ~FreeJoin
    <3>1. UNCHANGED <<pc, op, reported, reused, trimmed, disk, damaged, logical>>
      BY <1>2, <2>2, AfterFree DEF Success, DInv
    <3>2. Success /\ ~reused
      BY <3>1 DEF Success
    <3> QED BY <1>2, <3>1, <3>2 DEF Durable
  <2> QED BY <2>1, <2>2
<1> QED BY <1>1, <1>2, DataInvariant, PTL DEF Spec

\* In the build without threads success means that no write has failed and
\* nobody has written behind the end.
THEOREM SuccessHidesNoError ==
  ASSUME ~HwTrim, VerifyWrites, ~UsePthreads
  PROVE  Spec => []NoErrorLost
<1>1. Init => NoErrorLost
  BY DEF Init, NoErrorLost, Success
<1>2. ASSUME DInv, NoErrorLost, [Next]_vars PROVE NoErrorLost'
  <2> SUFFICES ASSUME Success' PROVE NoErrorLost'
    BY DEF NoErrorLost
  <2>1. CASE FreeJoin
    <3>0. op.name = "flush" /\ ~reported /\ ~reused
      BY <1>2, <2>1 DEF FreeJoin, Success, histVars, DInv, SInv, NoThreadError
    <3>1. /\ Dirty(Slot) = {} /\ seg_to_write = NULL /\ DCore /\ pc = "join"
          /\ UNCHANGED <<bad_offset, damaged, logical>>
      BY <1>2, <2>1, <3>0, FreeJoinData
    <3>2. ~Errored
      BY <1>2 DEF DInv, SInv, NoThreadError
    <3>3. damaged = {}
      BY <3>1, <3>2 DEF DCore, DamageKnown
    <3>4. \A off \in Segs : PastEnd(off) => \A x \in Block : logical[off][x] = Zero
      BY <3>1 DEF DCore, PastEndDirty
    <3> QED BY <3>1, <3>2, <3>3, <3>4 DEF NoErrorLost, PastEnd, Errored
  <2>2. CASE ~FreeJoin
    <3>1. UNCHANGED <<pc, op, reported, bad_offset, damaged, logical>>
      BY <1>2, <2>2, AfterFree DEF Success, DInv
    <3>2. Success
      BY <3>1 DEF Success
    <3> QED BY <1>2, <3>1, <3>2 DEF NoErrorLost, Errored
  <2> QED BY <2>1, <2>2
<1> QED BY <1>1, <1>2, DataInvariant, PTL DEF Spec

============================================================================
