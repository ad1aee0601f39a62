------------------------ MODULE FrameCommands_proofs ------------------------
(***************************************************************************)
(* What the commands of the frames in flight do to the images they share,  *)
(* for every number of frames, images, effects and vertex buffers, in      *)
(* every order the barriers and semaphores leave to the GPU.               *)
(***************************************************************************)
EXTENDS FrameCommands, QueueLemmas

(* How far a frame's commands have got: its own barriers order all but the *)
(* blit and the rendering.                                                 *)
Follows(done) ==
  /\ done \subseteq 2 .. 9
  /\ 3 \in done => 2 \in done
  /\ 4 \in done => 3 \in done
  /\ 5 \in done => 4 \in done
  /\ 6 \in done => 5 \in done
  /\ 7 \in done => 5 \in done
  /\ 8 \in done => 6 \in done /\ 7 \in done
  /\ 9 \in done => 8 \in done

DoneInOrder == \A k \in DOMAIN queue : Follows(queue[k].done)

(* A frame begins when the frames before it have only their signal left.   *)
Serial ==
  \A k, m \in DOMAIN queue : m < k /\ queue[k].done # {} => 8 \in queue[m].done

(* A frame has its image from the acquire until it signals.                *)
InHand(k) == 9 \notin queue[k].done

(* It writes the image when the screen has stopped reading it.             *)
Unread == \A k \in DOMAIN queue : InHand(k) /\ 2 \in queue[k].done => queue[k].image \notin scanout

(* Every image is in one place, once.                                      *)
HeldApart ==
  /\ \A k, m \in DOMAIN queue :
       InHand(k) /\ InHand(m) /\ queue[k].image = queue[m].image => k = m
  /\ \A k \in DOMAIN queue : InHand(k) => queue[k].image \notin available \cup Shown

ShownApart ==
  /\ available \cap Shown = {}
  /\ \A n \in DOMAIN flipQueue : flipQueue[n] \notin displayed
  /\ \A n, l \in DOMAIN flipQueue : flipQueue[n] = flipQueue[l] => n = l

OrderInv == TypeOK /\ DoneInOrder /\ Serial /\ Unread /\ HeldApart /\ ShownApart

(* Between a frame's dispatch and its blit drawImage_ holds its background *)
(* and no other's; from the blit on its swapchain image does.              *)
BackgroundInv ==
  /\ \A k \in DOMAIN queue :
       /\ InHand(k) => asked[queue[k].image] = queue[k].pushed
       /\ 3 \in queue[k].done /\ 6 \notin queue[k].done =>
            content[DrawImage].background \in {queue[k].pushed, Undefined}
       /\ InHand(k) /\ 6 \in queue[k].done =>
            content[queue[k].image].background \in {queue[k].pushed, Undefined}
  /\ BackgroundIsOwn

(* The transitions leave the layouts that the blit and the screen name.    *)
LayoutInv ==
  /\ \A k \in DOMAIN queue :
       /\ 4 \in queue[k].done => layout[DrawImage] = "TRANSFER_SRC"
       /\ 5 \in queue[k].done /\ 8 \notin queue[k].done => layout[queue[k].image] = "TRANSFER_DST"
       /\ InHand(k) /\ 8 \in queue[k].done => layout[queue[k].image] = "PRESENT_SRC"
  /\ \A i \in Shown : layout[i] = "PRESENT_SRC"

(* The frames in flight have the last vertex buffers used, in turn, and a  *)
(* frame that is yet to draw its interface finds its own there.            *)
VertexInv ==
  /\ Len(queue) <= FRAME_OVERLAP
  /\ \A k \in DOMAIN queue :
       /\ (queue[k].buffer + (Len(queue) + 1 - k)) % ImageCount = uiNext
       /\ 7 \notin queue[k].done => uiBuffer[queue[k].buffer] = queue[k].pushed
       /\ InHand(k) /\ 7 \in queue[k].done =>
            content[queue[k].image].ui \in {queue[k].pushed, Undefined, NoUi}
  /\ UiIsOwn

-------------------------------------------------------------------------------
(* The commands, by their places.                                          *)

(* Which command is where.                                                 *)
LEMMA CommandPlaces ==
  /\ Places = 1 .. 9 /\ Len(Commands) = 9
  /\ Commands[1].op = "wait" /\ Commands[2].op = "barrier" /\ Commands[3].op = "dispatch"
  /\ Commands[4].op = "barrier" /\ Commands[5].op = "barrier" /\ Commands[6].op = "blit"
  /\ Commands[7].op = "rendering" /\ Commands[8].op = "barrier" /\ Commands[9].op = "signal"
  BY DEF Places, Commands, AcquireWait, RenderSignal, Dispatch, copy_image_to_image, Rendering,
         Command, transition_image

(* What the transitions transition.                                        *)
LEMMA TransitionPlaces ==
  /\ Commands[2].image = "swapchain" /\ Commands[2].new = "GENERAL"
  /\ Commands[4].image = "draw" /\ Commands[4].new = "TRANSFER_SRC"
  /\ Commands[5].image = "swapchain" /\ Commands[5].new = "TRANSFER_DST"
  /\ Commands[8].image = "swapchain" /\ Commands[8].new = "PRESENT_SRC"
  BY DEF Commands, transition_image

(* The pairs in order that the argument needs.                             *)
LEMMA OrderedPlaces ==
  { <<1, 2>>, <<8, 2>>, <<2, 3>>, <<3, 4>>, <<4, 5>>, <<5, 6>>, <<5, 7>>, <<6, 8>>, <<7, 8>>,
    <<8, 9>>, <<9, 9>> } \subseteq Ordered
<1>1. /\ "graphics" \in Commands[1].before
      /\ \A i \in {2, 4, 5, 8} : Commands[i].after = Stages /\ Commands[i].before = Stages
      /\ "compute" \in Commands[3].after /\ "compute" \in Commands[3].before
      /\ "blit" \in Commands[6].after /\ "blit" \in Commands[6].before
      /\ "graphics" \in Commands[7].after /\ "graphics" \in Commands[7].before
      /\ "graphics" \in Commands[9].after
  BY DEF Commands, AcquireWait, RenderSignal, Dispatch, copy_image_to_image, Rendering, Command,
         transition_image, BarrierStages
<1>2. "compute" \in Stages /\ "blit" \in Stages /\ "graphics" \in Stages
  BY DEF Stages
<1>3. \A i \in {1, 2, 4, 5, 8, 9} : IsSync(i)
  BY CommandPlaces DEF IsSync
<1>4. ASSUME NEW p \in Places, NEW q \in Places, IsSync(p) \/ IsSync(q),
             NEW s, s \in Commands[p].before, s \in Commands[q].after
      PROVE  <<p, q>> \in Ordered
  BY <1>4 DEF Ordered
<1>5. \A i \in 1 .. 9 : i \in Places
  BY CommandPlaces
<1>6. <<1, 2>> \in Ordered /\ <<8, 2>> \in Ordered /\ <<2, 3>> \in Ordered /\ <<3, 4>> \in Ordered
  BY <1>1, <1>2, <1>3, <1>4, <1>5
<1>7. <<4, 5>> \in Ordered /\ <<5, 6>> \in Ordered /\ <<5, 7>> \in Ordered
  BY <1>1, <1>2, <1>3, <1>4, <1>5
<1>8. <<6, 8>> \in Ordered /\ <<7, 8>> \in Ordered /\ <<8, 9>> \in Ordered
  BY <1>1, <1>2, <1>3, <1>4, <1>5
<1>9. <<9, 9>> \in Ordered
  BY <1>5, CommandPlaces DEF Ordered
<1> QED
  BY <1>6, <1>7, <1>8, <1>9

-------------------------------------------------------------------------------
(* The frames in the queue.                                                *)
Frames == [image : Images, pushed : Effects \X Data, buffer : 0 .. ImageCount - 1,
           done : SUBSET Places]

(* What a frame in the queue is made of.                                   *)
LEMMA FrameTypes ==
  ASSUME TypeOK
  PROVE  /\ queue \in Seq(Frames)
         /\ \A k \in DOMAIN queue :
              /\ queue[k] \in Frames /\ k \in Nat \ {0}
              /\ queue[k].image \in Images /\ queue[k].pushed \in Effects \X Data
              /\ queue[k].buffer \in 0 .. ImageCount - 1 /\ queue[k].done \subseteq Places
<1>1. queue \in Seq(Frames)
  BY DEF TypeOK, Frames
<1>2. \A k \in DOMAIN queue : queue[k] \in Frames /\ k \in Nat \ {0}
  BY <1>1
<1> QED
  BY <1>1, <1>2 DEF Frames

(* A command that may execute has not, those it waits for have, and a      *)
(* frame's first waits for the frames before it and for its image.         *)
LEMMA ReadyPlace ==
  ASSUME TypeOK, DoneInOrder, NEW k \in DOMAIN queue, NEW i \in 2 .. 9, Ready(k, i)
  PROVE  /\ i \notin queue[k].done
         /\ i = 2 => /\ InHand(k) => queue[k].image \notin scanout
                     /\ \A m \in DOMAIN queue : m < k => 8 \in queue[m].done
         /\ i = 3 => 2 \in queue[k].done
         /\ i = 4 => 3 \in queue[k].done
         /\ i = 5 => 4 \in queue[k].done
         /\ i = 6 => 5 \in queue[k].done
         /\ i = 7 => 5 \in queue[k].done
         /\ i = 8 => 6 \in queue[k].done /\ 7 \in queue[k].done
         /\ i = 9 => 8 \in queue[k].done
<1>1. ASSUME NEW f, NEW j \in 2 .. 9
      PROVE  Executed(f, j) <=> j \in f.done
  BY CommandPlaces DEF Executed
<1>2. ASSUME NEW p \in 2 .. 9, p < i, <<p, i>> \in Ordered
      PROVE  p \in queue[k].done
  BY <1>1, <1>2 DEF Ready
<1>3. CASE i = 2
  <2>1. <<1, 2>> \in Ordered /\ <<8, 2>> \in Ordered
    BY OrderedPlaces
  <2>2. Executed(queue[k], 1)
    BY <1>3, <2>1 DEF Ready
  <2>3. InHand(k) => queue[k].image \notin scanout
    BY <2>2, CommandPlaces DEF Executed, AcquireSignalled, InHand, DoneInOrder, Follows
  <2>4. \A m \in 1 .. k - 1 : 8 \in queue[m].done
    BY <1>1, <1>3, <2>1 DEF Ready
  <2>5. \A m \in DOMAIN queue : m < k => m \in 1 .. k - 1
    BY FrameTypes
  <2> QED
    BY <1>1, <1>3, <2>3, <2>4, <2>5 DEF Ready
<1>4. CASE i # 2
  <2>1. /\ <<2, 3>> \in Ordered /\ <<3, 4>> \in Ordered /\ <<4, 5>> \in Ordered
        /\ <<5, 6>> \in Ordered /\ <<5, 7>> \in Ordered /\ <<6, 8>> \in Ordered
        /\ <<7, 8>> \in Ordered /\ <<8, 9>> \in Ordered
    BY OrderedPlaces
  <2>2. /\ i = 3 => 2 \in queue[k].done
        /\ i = 4 => 3 \in queue[k].done
        /\ i = 5 => 4 \in queue[k].done
        /\ i = 6 => 5 \in queue[k].done
        /\ i = 7 => 5 \in queue[k].done
        /\ i = 8 => 6 \in queue[k].done /\ 7 \in queue[k].done
        /\ i = 9 => 8 \in queue[k].done
    BY <1>2, <2>1
  <2> QED
    BY <1>1, <1>4, <2>2 DEF Ready
<1> QED
  BY <1>3, <1>4

(* What executing a command does to the queue.                             *)
LEMMA ExecutedOne ==
  ASSUME TypeOK, NEW k \in DOMAIN queue, NEW i \in Places,
         queue' = [queue EXCEPT ![k].done = @ \cup {i}]
  PROVE  /\ queue' \in Seq(Frames) /\ DOMAIN queue' = DOMAIN queue /\ Len(queue') = Len(queue)
         /\ \A m \in DOMAIN queue :
              /\ queue'[m].image = queue[m].image /\ queue'[m].pushed = queue[m].pushed
              /\ queue'[m].buffer = queue[m].buffer
              /\ m # k => queue'[m].done = queue[m].done
         /\ queue'[k].done = queue[k].done \cup {i}
<1>1. queue \in Seq(Frames) /\ queue[k] \in Frames
  BY FrameTypes
<1>2. PICK f : f = [queue[k] EXCEPT !.done = @ \cup {i}]
  OBVIOUS
<1>3. /\ f \in Frames /\ f.done = queue[k].done \cup {i} /\ f.image = queue[k].image
      /\ f.pushed = queue[k].pushed /\ f.buffer = queue[k].buffer
  BY <1>1, <1>2 DEF Frames
<1>4. queue' = [queue EXCEPT ![k] = f]
  BY <1>2
<1>5. /\ queue' \in Seq(Frames) /\ Len(queue') = Len(queue) /\ DOMAIN queue' = DOMAIN queue
      /\ \A m \in DOMAIN queue : queue'[m] = IF m = k THEN f ELSE queue[m]
  <2>1. k \in 1 .. Len(queue) /\ DOMAIN queue = 1 .. Len(queue)
    BY <1>1
  <2>2. /\ [queue EXCEPT ![k] = f] \in Seq(Frames)
        /\ Len([queue EXCEPT ![k] = f]) = Len(queue)
        /\ \A m \in 1 .. Len(queue) : [queue EXCEPT ![k] = f][m] = IF m = k THEN f ELSE queue[m]
    BY <1>1, <1>3, <2>1, ExceptSeq
  <2> QED
    BY <1>4, <2>1, <2>2
<1> QED
  BY <1>3, <1>5

(* What executing a command does, by its place.                            *)
LEMMA ExecutePlace ==
  ASSUME TypeOK, NEW k \in DOMAIN queue, NEW i \in Places, Execute(k, i)
  PROVE  /\ Ready(k, i) /\ i \in 2 .. 9
         /\ queue' = [queue EXCEPT ![k].done = @ \cup {i}]
         /\ UNCHANGED <<crashed, uiVars, ghostVars>>
         /\ i # 9 => UNCHANGED presentVars
         /\ i = 9 => /\ flipQueue' = Append(flipQueue, queue[k].image)
                     /\ UNCHANGED <<layout, content, available, displayed, scanout>>
<1>1. i \in 1 .. 9
  BY CommandPlaces
<1>2. CASE ExecuteBarrier(k, i)
  <2>1. Executes(k, i, "barrier") /\ UNCHANGED presentVars
    BY <1>2 DEF ExecuteBarrier
  <2> QED
    BY <1>1, <2>1, CommandPlaces DEF Executes
<1>3. CASE ExecuteDispatch(k, i) \/ ExecuteBlit(k, i) \/ ExecuteRendering(k, i)
  <2>1. /\ Executes(k, i, "dispatch") \/ Executes(k, i, "blit") \/ Executes(k, i, "rendering")
        /\ UNCHANGED presentVars
    BY <1>3 DEF ExecuteDispatch, ExecuteBlit, ExecuteRendering
  <2> QED
    BY <1>1, <2>1, CommandPlaces DEF Executes
<1>4. CASE ExecuteSignal(k, i)
  <2>1. /\ Executes(k, i, "signal")
        /\ flipQueue' = Append(flipQueue, queue[k].image)
        /\ UNCHANGED <<layout, content, available, displayed, scanout>>
    BY <1>4 DEF ExecuteSignal, imageVars
  <2> QED
    BY <1>1, <2>1, CommandPlaces DEF Executes
<1> QED
  BY <1>2, <1>3, <1>4 DEF Execute

-------------------------------------------------------------------------------
(* What the commands do to the images.                                     *)
AllImages == Images \cup {DrawImage}
Pictures == [background : Looks, ui : Looks \cup {NoUi}]

(* The image that a command writes, for the places 2 .. 8.                 *)
Written(k, i) == IF i \in {3, 4} THEN DrawImage ELSE queue[k].image

(* The workgroups of the dispatch reach the whole of the draw image.       *)
LEMMA DispatchCovers == Covered
  BY DEF Covered, Groups, windowExtent_

(* Garbage is a picture, and so is what a frame writes.                    *)
LEMMA PictureTypes ==
  ASSUME TypeOK
  PROVE  /\ Garbage \in Pictures /\ Garbage.background = Undefined /\ Garbage.ui = Undefined
         /\ \A i \in AllImages : /\ content[i] \in Pictures /\ content[i].background \in Looks
                                 /\ content[i].ui \in Looks \cup {NoUi}
         /\ \A b \in 0 .. ImageCount - 1 : uiBuffer[b] \in Looks
<1>1. Garbage \in Pictures /\ Garbage.background = Undefined /\ Garbage.ui = Undefined
  BY DEF Garbage, Pictures, Looks
<1>2. \A i \in AllImages : content[i] \in Pictures
  BY DEF TypeOK, AllImages, Pictures
<1>3. \A c \in Pictures : c.background \in Looks /\ c.ui \in Looks \cup {NoUi}
  BY DEF Pictures
<1> QED
  BY <1>1, <1>2, <1>3 DEF TypeOK

(* A transition sets the layout, and keeps the contents or loses them.     *)
LEMMA BarrierEffect ==
  ASSUME TypeOK, NEW k \in DOMAIN queue, NEW i \in Places, ExecuteBarrier(k, i)
  PROVE  /\ i \in {2, 4, 5, 8}
         /\ layout' = [layout EXCEPT ![Written(k, i)] = Commands[i].new]
         /\ \E c \in {content[Written(k, i)], Garbage} :
              content' = [content EXCEPT ![Written(k, i)] = c]
<1>1. i \in {2, 4, 5, 8}
  BY CommandPlaces DEF ExecuteBarrier, Executes
<1>2. (IF Commands[i].image = "draw" THEN DrawImage ELSE queue[k].image) = Written(k, i)
  BY <1>1, TransitionPlaces DEF Written
<1>3. Written(k, i) \in AllImages
  BY <1>1, FrameTypes DEF Written, AllImages
<1>4. content' = [content EXCEPT ![Written(k, i)] =
                    Outcome(Written(k, i), Commands[i].old, content[Written(k, i)], Garbage)]
  BY <1>2 DEF ExecuteBarrier
<1> QED
  BY <1>1, <1>2, <1>4 DEF ExecuteBarrier, Outcome

(* The dispatch leaves the frame's background in the draw image, or, if    *)
(* that is in another layout than the descriptor names, possibly none.     *)
LEMMA DispatchEffect ==
  ASSUME TypeOK, NEW k \in DOMAIN queue, NEW i \in Places, ExecuteDispatch(k, i)
  PROVE  /\ i = 3 /\ layout' = layout
         /\ \E w \in {queue[k].pushed, Undefined} :
              content' = [content EXCEPT ![DrawImage] = [content[DrawImage] EXCEPT !.background = w]]
<1>1. i = 3
  BY CommandPlaces DEF ExecuteDispatch, Executes
<1>2. content' = [content EXCEPT ![DrawImage].background =
                    Outcome(DrawImage, "GENERAL", queue[k].pushed, Undefined)]
  BY DispatchCovers DEF ExecuteDispatch
<1> QED
  BY <1>1, <1>2 DEF ExecuteDispatch, Outcome

(* The blit leaves the draw image's background, with no interface yet.     *)
LEMMA BlitEffect ==
  ASSUME TypeOK, NEW k \in DOMAIN queue, NEW i \in Places, ExecuteBlit(k, i)
  PROVE  /\ i = 6 /\ layout' = layout
         /\ \E c \in {[background |-> content[DrawImage].background, ui |-> NoUi], Garbage} :
              content' = [content EXCEPT ![queue[k].image] = c]
<1>1. i = 6
  BY CommandPlaces DEF ExecuteBlit, Executes
<1> QED
  BY <1>1 DEF ExecuteBlit, Outcome

(* The rendering leaves the interface that is in the frame's buffer, over  *)
(* the background that was there.                                          *)
LEMMA RenderingEffect ==
  ASSUME TypeOK, NEW k \in DOMAIN queue, NEW i \in Places, ExecuteRendering(k, i)
  PROVE  /\ i = 7 /\ layout' = layout
         /\ \E c \in {[background |-> content[queue[k].image].background,
                       ui |-> uiBuffer[queue[k].buffer]], Garbage} :
              content' = [content EXCEPT ![queue[k].image] = c]
<1>1. i = 7
  BY CommandPlaces DEF ExecuteRendering, Executes
<1> QED
  BY <1>1 DEF ExecuteRendering, Outcome, attachment_info

(* What a command leaves, and where.                                       *)
LEMMA ExecuteEffect ==
  ASSUME TypeOK, NEW k \in DOMAIN queue, NEW i \in 2 .. 8, i \in Places, Execute(k, i)
  PROVE  /\ \A j \in AllImages :
              j # Written(k, i) => content'[j] = content[j] /\ layout'[j] = layout[j]
         /\ content' \in [AllImages -> Pictures] /\ layout' \in [AllImages -> Layouts]
         /\ i \in {2, 4, 5, 8} => /\ content'[Written(k, i)] \in {content[Written(k, i)], Garbage}
                                  /\ layout'[Written(k, i)] = Commands[i].new
         /\ i \in {3, 6, 7} => layout' = layout
         /\ i = 3 => content'[DrawImage].background \in {queue[k].pushed, Undefined}
         /\ i = 6 => content'[queue[k].image] \in
                       {[background |-> content[DrawImage].background, ui |-> NoUi], Garbage}
         /\ i = 7 => content'[queue[k].image] \in
                       {[background |-> content[queue[k].image].background,
                         ui |-> uiBuffer[queue[k].buffer]], Garbage}
<1>1. /\ content \in [AllImages -> Pictures] /\ layout \in [AllImages -> Layouts]
      /\ DrawImage \in AllImages /\ queue[k].image \in AllImages /\ queue[k].pushed \in Looks
      /\ Undefined \in Looks
  BY FrameTypes DEF TypeOK, AllImages, Pictures, Looks
<1>2. Written(k, i) \in AllImages
  BY <1>1 DEF Written
<1>3. CASE ExecuteBarrier(k, i)
  <2>1. /\ i \in {2, 4, 5, 8}
        /\ layout' = [layout EXCEPT ![Written(k, i)] = Commands[i].new]
    BY <1>3, BarrierEffect
  <2>2. PICK c \in {content[Written(k, i)], Garbage} :
          content' = [content EXCEPT ![Written(k, i)] = c]
    BY <1>3, BarrierEffect
  <2>3. c \in Pictures
    BY <1>2, PictureTypes
  <2>4. Commands[i].new \in Layouts
    BY <2>1, TransitionPlaces DEF Layouts
  <2> QED
    BY <1>1, <1>2, <2>1, <2>2, <2>3, <2>4
<1>4. CASE ExecuteDispatch(k, i)
  <2>1. i = 3 /\ layout' = layout /\ Written(k, i) = DrawImage
    BY <1>4, DispatchEffect DEF Written
  <2>2. PICK w \in {queue[k].pushed, Undefined} :
          content' = [content EXCEPT ![DrawImage] = [content[DrawImage] EXCEPT !.background = w]]
    BY <1>4, DispatchEffect
  <2>3. PICK c : c = [content[DrawImage] EXCEPT !.background = w]
    OBVIOUS
  <2>4. c \in Pictures /\ c.background = w
    <3>1. content[DrawImage] \in Pictures /\ w \in Looks
      BY <1>1, PictureTypes
    <3> QED
      BY <2>3, <3>1 DEF Pictures
  <2>5. content' = [content EXCEPT ![DrawImage] = c]
    BY <2>2, <2>3
  <2> QED
    BY <1>1, <2>1, <2>4, <2>5
<1>5. CASE ExecuteBlit(k, i)
  <2>1. i = 6 /\ layout' = layout /\ Written(k, i) = queue[k].image
    BY <1>5, BlitEffect DEF Written
  <2>2. PICK c \in {[background |-> content[DrawImage].background, ui |-> NoUi], Garbage} :
          content' = [content EXCEPT ![queue[k].image] = c]
    BY <1>5, BlitEffect
  <2>3. c \in Pictures
    BY <1>1, PictureTypes DEF Pictures
  <2> QED
    BY <1>1, <2>1, <2>2, <2>3
<1>6. CASE ExecuteRendering(k, i)
  <2>0. i = 7 /\ layout' = layout
    BY <1>6, RenderingEffect
  <2>1. i = 7 /\ layout' = layout /\ Written(k, i) = queue[k].image
    BY <2>0 DEF Written
  <2>2. PICK c \in {[background |-> content[queue[k].image].background,
                     ui |-> uiBuffer[queue[k].buffer]], Garbage} :
          content' = [content EXCEPT ![queue[k].image] = c]
    BY <1>6, RenderingEffect
  <2>3. c \in Pictures
    BY <1>1, FrameTypes, PictureTypes DEF Pictures
  <2> QED
    BY <1>1, <2>1, <2>2, <2>3
<1>7. ~ExecuteSignal(k, i)
  BY CommandPlaces DEF ExecuteSignal, Executes
<1> QED
  BY <1>3, <1>4, <1>5, <1>6, <1>7 DEF Execute

-------------------------------------------------------------------------------
(* What draw() submits.                                                    *)
LEMMA DrawEffect ==
  ASSUME TypeOK, BuildUiAndDraw
  PROVE  /\ Len(queue) < FRAME_OVERLAP
         /\ currentBackgroundEffect_' \in Effects /\ backgroundEffects_' \in [Effects -> Data]
         /\ uiNext \in 0 .. ImageCount - 1 /\ uiNext' = (uiNext + 1) % ImageCount
         /\ UNCHANGED <<crashed, layout, content, flipQueue, displayed, scanout, lenient>>
         /\ \E f \in Frames :
              /\ f.image \in available /\ f.image \in Images /\ f.buffer = uiNext /\ f.done = {}
              /\ f.pushed \in Effects \X Data /\ f.pushed \in Looks
              /\ queue' = Append(queue, f)
              /\ available' = available \ {f.image}
              /\ asked' = [asked EXCEPT ![f.image] = f.pushed]
              /\ uiBuffer' = [uiBuffer EXCEPT ![uiNext] = f.pushed]
<1>1. /\ BuildUi /\ Len(queue) < FRAME_OVERLAP /\ uiNext' = NextBuffer
      /\ UNCHANGED <<crashed, layout, content, flipQueue, displayed, scanout, lenient>>
  BY DEF BuildUiAndDraw, imageVars
<1>2. currentBackgroundEffect_' \in Effects /\ backgroundEffects_' \in [Effects -> Data]
  BY <1>1 DEF BuildUi, TypeOK
<1>3. PICK look :
        look = <<currentBackgroundEffect_', backgroundEffects_'[currentBackgroundEffect_']>>
  OBVIOUS
<1>4. look \in Effects \X Data /\ look \in Looks
  BY <1>2, <1>3 DEF Looks
<1>5. PICK i \in available :
        /\ queue' = Append(queue, [image |-> i, pushed |-> look, buffer |-> uiNext, done |-> {}])
        /\ available' = available \ {i}
        /\ asked' = [asked EXCEPT ![i] = look]
        /\ uiBuffer' = [uiBuffer EXCEPT ![uiNext] = look]
  BY <1>3 DEF BuildUiAndDraw
<1>6. PICK f : f = [image |-> i, pushed |-> look, buffer |-> uiNext, done |-> {}]
  OBVIOUS
<1>7. /\ f \in Frames /\ f.image = i /\ f.pushed = look /\ f.buffer = uiNext /\ f.done = {}
      /\ i \in Images
  <2>1. i \in Images /\ uiNext \in 0 .. ImageCount - 1
    BY DEF TypeOK
  <2> QED
    BY <1>4, <1>6, <2>1 DEF Frames
<1>8. queue' = Append(queue, f)
  BY <1>5, <1>6
<1>9. uiNext \in 0 .. ImageCount - 1
  BY DEF TypeOK
<1> QED
  BY <1>1, <1>2, <1>4, <1>5, <1>7, <1>8, <1>9 DEF NextBuffer

(* Every image's place at the start.                                       *)
LEMMA InitOrder == Init => OrderInv
<1> SUFFICES ASSUME Init PROVE OrderInv
  OBVIOUS
<1>1. queue = <<>> /\ DOMAIN queue = {} /\ flipQueue = <<>> /\ DOMAIN flipQueue = {}
  BY DEF Init
<1>2. Undefined \in Looks /\ Garbage \in [background : Looks, ui : Looks \cup {NoUi}]
  BY DEF Looks, Garbage
<1>3. /\ 0 \in 0 .. ImageCount - 1 /\ "UNDEFINED" \in Layouts
  BY ImageCountAssumption DEF Layouts
<1>4. TypeOK
  BY <1>1, <1>2, <1>3, EffectsAssumption DEF Init, TypeOK
<1>5. Shown = {}
  BY <1>1 DEF Shown, Init
<1> QED
  BY <1>1, <1>4, <1>5 DEF OrderInv, DoneInOrder, Serial, Unread, HeldApart, ShownApart

(* A new frame has done nothing, and has an image that was available.      *)
LEMMA DrawKeepsOrder == OrderInv /\ BuildUiAndDraw => OrderInv'
<1> SUFFICES ASSUME OrderInv, BuildUiAndDraw PROVE OrderInv'
  OBVIOUS
<1>1. TypeOK /\ DoneInOrder /\ Serial /\ Unread /\ HeldApart /\ ShownApart
  BY DEF OrderInv
<1>2. /\ currentBackgroundEffect_' \in Effects /\ backgroundEffects_' \in [Effects -> Data]
      /\ uiNext \in 0 .. ImageCount - 1 /\ uiNext' = (uiNext + 1) % ImageCount
      /\ UNCHANGED <<crashed, layout, content, flipQueue, displayed, scanout, lenient>>
  BY <1>1, DrawEffect
<1>3. PICK f \in Frames :
        /\ f.image \in available /\ f.image \in Images /\ f.done = {} /\ f.pushed \in Looks
        /\ queue' = Append(queue, f)
        /\ available' = available \ {f.image}
        /\ asked' = [asked EXCEPT ![f.image] = f.pushed]
        /\ uiBuffer' = [uiBuffer EXCEPT ![uiNext] = f.pushed]
  BY <1>1, DrawEffect
<1>4. /\ queue \in Seq(Frames) /\ queue' \in Seq(Frames)
      /\ \A k \in DOMAIN queue : k \in Nat
  BY <1>1, <1>3, FrameTypes
<1>5. PICK n : n = Len(queue) + 1
  OBVIOUS
<1>6. /\ n \notin DOMAIN queue /\ DOMAIN queue' = DOMAIN queue \cup {n} /\ queue'[n] = f
      /\ \A k \in DOMAIN queue : queue'[k] = queue[k] /\ k < n /\ ~(n < k)
  <2>1. \A k \in DOMAIN queue : k < n /\ ~(n < k)
    BY <1>4, <1>5
  <2> QED
    BY <1>3, <1>4, <1>5, <2>1, AppendedLast
<1>7. Shown' = Shown
  BY <1>2 DEF Shown
<1>8. TypeOK'
  <2>1. uiNext' \in 0 .. ImageCount - 1
    BY <1>2, ImageCountAssumption
  <2>2. uiBuffer' \in [0 .. ImageCount - 1 -> Looks] /\ asked' \in [Images -> Looks]
    BY <1>1, <1>2, <1>3 DEF TypeOK
  <2>3. available' \subseteq Images
    BY <1>1, <1>3 DEF TypeOK
  <2> QED
    BY <1>1, <1>2, <1>4, <2>1, <2>2, <2>3 DEF TypeOK, Frames
<1>9. DoneInOrder'
  BY <1>1, <1>3, <1>6 DEF DoneInOrder, Follows
<1>10. Serial'
  BY <1>1, <1>3, <1>6 DEF Serial
<1>11. Unread'
  BY <1>1, <1>2, <1>3, <1>6 DEF Unread, InHand
<1>12. HeldApart'
  BY <1>1, <1>3, <1>6, <1>7 DEF HeldApart, ShownApart, InHand
<1>13. ShownApart'
  BY <1>1, <1>2, <1>3, <1>7 DEF ShownApart
<1> QED
  BY <1>8, <1>9, <1>10, <1>11, <1>12, <1>13 DEF OrderInv

(* A command executes after those it waits for, in a frame whose           *)
(* predecessors have at most their signal left.                            *)
LEMMA ExecuteKeepsPlaces ==
  ASSUME OrderInv, NEW k \in DOMAIN queue, NEW i \in Places, Execute(k, i)
  PROVE  DoneInOrder' /\ Serial'
<1>1. TypeOK /\ DoneInOrder /\ Serial
  BY DEF OrderInv
<1>2. /\ i \in 2 .. 9 /\ Ready(k, i) /\ queue' = [queue EXCEPT ![k].done = @ \cup {i}]
  BY <1>1, ExecutePlace
<1>3. /\ DOMAIN queue' = DOMAIN queue /\ queue'[k].done = queue[k].done \cup {i}
      /\ \A m \in DOMAIN queue : m # k => queue'[m].done = queue[m].done
  BY <1>1, <1>2, ExecutedOne
<1>4. /\ i \notin queue[k].done
      /\ i = 2 => \A m \in DOMAIN queue : m < k => 8 \in queue[m].done
      /\ i = 3 => 2 \in queue[k].done
      /\ i = 4 => 3 \in queue[k].done
      /\ i = 5 => 4 \in queue[k].done
      /\ i = 6 => 5 \in queue[k].done
      /\ i = 7 => 5 \in queue[k].done
      /\ i = 8 => 6 \in queue[k].done /\ 7 \in queue[k].done
      /\ i = 9 => 8 \in queue[k].done
  BY <1>1, <1>2, ReadyPlace
<1>5. Follows(queue[k].done \cup {i})
  <2>1. Follows(queue[k].done)
    BY <1>1 DEF DoneInOrder
  <2> QED
    BY <1>2, <1>4, <2>1 DEF Follows
<1>6. DoneInOrder'
  BY <1>1, <1>3, <1>5 DEF DoneInOrder
<1>7. \A m \in DOMAIN queue : m < k => 8 \in queue[m].done
  <2>1. CASE i = 2
    BY <1>4, <2>1
  <2>2. CASE i # 2
    <3>1. queue[k].done # {}
      BY <1>2, <1>4, <2>2
    <3> QED
      BY <1>1, <3>1 DEF Serial
  <2> QED
    BY <2>1, <2>2
<1>8. Serial'
  BY <1>1, <1>3, <1>7 DEF Serial
<1> QED
  BY <1>6, <1>8

(* A command before the signal moves no image, and writes one that the     *)
(* screen does not read.                                                   *)
LEMMA ExecuteKeepsOrder ==
  ASSUME OrderInv, NEW k \in DOMAIN queue, NEW i \in Places, i # 9, Execute(k, i)
  PROVE  OrderInv'
<1>1. TypeOK /\ DoneInOrder /\ Unread /\ HeldApart /\ ShownApart
  BY DEF OrderInv
<1>2. /\ i \in 2 .. 8 /\ Ready(k, i) /\ queue' = [queue EXCEPT ![k].done = @ \cup {i}]
      /\ UNCHANGED <<crashed, currentBackgroundEffect_, backgroundEffects_, uiNext, uiBuffer,
                     lenient, asked, available, flipQueue, displayed, scanout>>
  <2>1. /\ i \in 2 .. 9 /\ Ready(k, i) /\ queue' = [queue EXCEPT ![k].done = @ \cup {i}]
        /\ UNCHANGED <<crashed, uiVars, ghostVars>> /\ UNCHANGED presentVars
    BY <1>1, ExecutePlace
  <2>2. i \in 2 .. 8
    BY <2>1
  <2> QED
    BY <2>1, <2>2 DEF uiVars, ghostVars, presentVars
<1>3. /\ queue' \in Seq(Frames)
      /\ DOMAIN queue' = DOMAIN queue /\ queue'[k].done = queue[k].done \cup {i}
      /\ \A m \in DOMAIN queue : /\ m # k => queue'[m].done = queue[m].done
                                 /\ queue'[m].image = queue[m].image
  BY <1>1, <1>2, ExecutedOne
<1>4. content' \in [AllImages -> Pictures] /\ layout' \in [AllImages -> Layouts]
  BY <1>1, <1>2, ExecuteEffect
<1>5. TypeOK'
  <2>1. content' \in [Images \cup {DrawImage} -> [background : Looks, ui : Looks \cup {NoUi}]]
    BY <1>4 DEF AllImages, Pictures
  <2>2. queue' \in Seq([image : Images, pushed : Effects \X Data, buffer : 0 .. ImageCount - 1,
                        done : SUBSET Places])
    BY <1>3 DEF Frames
  <2>3. layout' \in [Images \cup {DrawImage} -> Layouts]
    BY <1>4 DEF AllImages
  <2> QED
    BY <1>1, <1>2, <2>1, <2>2, <2>3 DEF TypeOK
<1>6. DoneInOrder' /\ Serial'
  BY ExecuteKeepsPlaces
<1>7. \A m \in DOMAIN queue : (9 \notin queue'[m].done) = (9 \notin queue[m].done)
  BY <1>3
<1>8. Shown' = Shown
  BY <1>2 DEF Shown
<1>9. Unread'
  <2>1. i = 2 /\ InHand(k) => queue[k].image \notin scanout
    BY <1>1, <1>2, ReadyPlace
  <2>2. i # 2 => (2 \in queue'[k].done) = (2 \in queue[k].done)
    BY <1>3
  <2> QED
    BY <1>1, <1>2, <1>3, <1>7, <2>1, <2>2 DEF Unread, InHand
<1>10. HeldApart'
  BY <1>1, <1>2, <1>3, <1>7, <1>8 DEF HeldApart, InHand
<1>11. ShownApart'
  BY <1>1, <1>2, <1>8 DEF ShownApart
<1> QED
  BY <1>5, <1>6, <1>9, <1>10, <1>11 DEF OrderInv

(* The signal hands the frame's image over to the present.                 *)
LEMMA SignalKeepsOrder ==
  ASSUME OrderInv, NEW k \in DOMAIN queue, NEW i \in Places, i = 9, Execute(k, i)
  PROVE  OrderInv'
<1>1. TypeOK /\ DoneInOrder /\ Unread /\ HeldApart /\ ShownApart
  BY DEF OrderInv
<1>2. /\ Ready(k, i) /\ queue' = [queue EXCEPT ![k].done = @ \cup {i}]
      /\ flipQueue' = Append(flipQueue, queue[k].image)
      /\ UNCHANGED <<crashed, currentBackgroundEffect_, backgroundEffects_, uiNext, uiBuffer,
                     lenient, asked, layout, content, available, displayed, scanout>>
  BY <1>1, ExecutePlace DEF uiVars, ghostVars
<1>3. /\ queue' \in Seq(Frames)
      /\ DOMAIN queue' = DOMAIN queue /\ queue'[k].done = queue[k].done \cup {i}
      /\ \A m \in DOMAIN queue : /\ m # k => queue'[m].done = queue[m].done
                                 /\ queue'[m].image = queue[m].image
  BY <1>1, <1>2, ExecutedOne
<1>4. flipQueue \in Seq(Images) /\ queue[k].image \in Images
  BY <1>1, FrameTypes DEF TypeOK
<1>5. PICK n : n = Len(flipQueue) + 1
  OBVIOUS
<1>6. /\ n \notin DOMAIN flipQueue /\ DOMAIN flipQueue' = DOMAIN flipQueue \cup {n}
      /\ flipQueue'[n] = queue[k].image
      /\ \A l \in DOMAIN flipQueue : flipQueue'[l] = flipQueue[l]
      /\ flipQueue' \in Seq(Images)
  BY <1>2, <1>4, <1>5, AppendedLast
<1>7. TypeOK'
  BY <1>1, <1>2, <1>3, <1>6 DEF TypeOK, Frames
<1>8. DoneInOrder' /\ Serial'
  BY ExecuteKeepsPlaces
<1>9. InHand(k)
  BY <1>1, <1>2, ReadyPlace DEF InHand
<1>10. Shown' = Shown \cup {queue[k].image}
  BY <1>2, <1>6 DEF Shown
<1>11. 9 \in queue'[k].done
  BY <1>3
<1>12. \A m \in DOMAIN queue : 9 \notin queue'[m].done =>
         m # k /\ InHand(m) /\ queue[m].image # queue[k].image
  BY <1>1, <1>3, <1>9, <1>11 DEF HeldApart, InHand
<1>13. Unread'
  BY <1>1, <1>2, <1>3, <1>12 DEF Unread, InHand
<1>14. HeldApart'
  <2>1. \A m \in DOMAIN queue : 9 \notin queue'[m].done =>
          queue'[m].image \notin available' \cup Shown'
    BY <1>1, <1>2, <1>3, <1>10, <1>12 DEF HeldApart
  <2>2. \A m, l \in DOMAIN queue :
          9 \notin queue'[m].done /\ 9 \notin queue'[l].done /\ queue'[m].image = queue'[l].image
            => m = l
    BY <1>1, <1>3, <1>12 DEF HeldApart
  <2> QED
    BY <1>3, <2>1, <2>2 DEF HeldApart, InHand
<1>15. queue[k].image \notin available \cup Shown
  BY <1>1, <1>9 DEF HeldApart
<1>16. ShownApart'
  <2>1. available' \cap Shown' = {}
    BY <1>1, <1>2, <1>10, <1>15 DEF ShownApart
  <2>2. /\ queue[k].image \notin displayed
        /\ \A l \in DOMAIN flipQueue : flipQueue[l] # queue[k].image
    BY <1>15 DEF Shown
  <2>3. \A l \in DOMAIN flipQueue' : flipQueue'[l] \notin displayed'
    BY <1>1, <1>2, <1>6, <2>2 DEF ShownApart
  <2>4. \A l, m \in DOMAIN flipQueue' : flipQueue'[l] = flipQueue'[m] => l = m
    BY <1>1, <1>6, <2>2 DEF ShownApart
  <2> QED
    BY <2>1, <2>3, <2>4 DEF ShownApart
<1> QED
  BY <1>7, <1>8, <1>13, <1>14, <1>16 DEF OrderInv

(* What is left of the queue when its oldest frame has completed.          *)
LEMMA CompletedOne ==
  ASSUME TypeOK, Complete
  PROVE  /\ queue # <<>> /\ 1 \in DOMAIN queue /\ queue' \in Seq(Frames)
         /\ Len(queue') = Len(queue) - 1 /\ Len(queue) \in Nat \ {0}
         /\ 7 \in queue[1].done /\ 9 \in queue[1].done
         /\ \A k \in DOMAIN queue' :
              k \in Nat \ {0} /\ k + 1 \in DOMAIN queue /\ queue'[k] = queue[k + 1]
         /\ UNCHANGED <<crashed, currentBackgroundEffect_, backgroundEffects_, uiNext, uiBuffer,
                        lenient, asked, layout, content, available, flipQueue, displayed, scanout>>
<1>1. /\ queue # <<>> /\ queue' = Tail(queue)
      /\ UNCHANGED <<crashed, currentBackgroundEffect_, backgroundEffects_, uiNext, uiBuffer,
                     lenient, asked, layout, content, available, flipQueue, displayed, scanout>>
  BY DEF Complete, uiVars, imageVars, presentVars, ghostVars
<1>2. queue \in Seq(Frames)
  BY FrameTypes
<1>3. 7 \in queue[1].done /\ 9 \in queue[1].done
  BY CommandPlaces DEF Complete, Executed
<1>4. /\ 1 \in DOMAIN queue /\ queue' \in Seq(Frames)
      /\ Len(queue') = Len(queue) - 1 /\ Len(queue) \in Nat \ {0}
  BY <1>1, <1>2
<1>5. \A k \in DOMAIN Tail(queue) :
        k \in Nat \ {0} /\ k + 1 \in DOMAIN queue /\ Tail(queue)[k] = queue[k + 1]
  BY <1>1, <1>2, TailShifts
<1> QED
  BY <1>1, <1>3, <1>4, <1>5

(* A completed frame has given its image away.                             *)
LEMMA CompleteKeepsOrder == OrderInv /\ Complete => OrderInv'
<1> SUFFICES ASSUME OrderInv, Complete PROVE OrderInv'
  OBVIOUS
<1>1. TypeOK /\ DoneInOrder /\ Serial /\ Unread /\ HeldApart /\ ShownApart
  BY DEF OrderInv
<1>2. /\ queue' \in Seq(Frames)
      /\ UNCHANGED <<crashed, currentBackgroundEffect_, backgroundEffects_, uiNext, uiBuffer,
                     lenient, asked, layout, content, available, flipQueue, displayed, scanout>>
      /\ \A k \in DOMAIN queue' :
           k \in Nat \ {0} /\ k + 1 \in DOMAIN queue /\ queue'[k] = queue[k + 1]
  BY <1>1, CompletedOne
<1>3. Shown' = Shown
  BY <1>2 DEF Shown
<1>4. TypeOK'
  BY <1>1, <1>2 DEF TypeOK, Frames
<1>5. DoneInOrder'
  BY <1>1, <1>2 DEF DoneInOrder
<1>6. Serial'
  <2>1. \A k, m \in DOMAIN queue' : m < k => m + 1 < k + 1
    BY <1>2
  <2> QED
    BY <1>1, <1>2, <2>1 DEF Serial
<1>7. Unread'
  BY <1>1, <1>2 DEF Unread, InHand
<1>8. HeldApart'
  <2>1. \A k, m \in DOMAIN queue' : k + 1 = m + 1 => k = m
    BY <1>2
  <2>2. \A k, m \in DOMAIN queue' :
          9 \notin queue'[k].done /\ 9 \notin queue'[m].done /\ queue'[k].image = queue'[m].image
            => k = m
    BY <1>1, <1>2, <2>1 DEF HeldApart, InHand
  <2>3. \A k \in DOMAIN queue' : 9 \notin queue'[k].done =>
          queue'[k].image \notin available' \cup Shown'
    BY <1>1, <1>2, <1>3 DEF HeldApart, InHand
  <2> QED
    BY <2>2, <2>3 DEF HeldApart, InHand
<1>9. ShownApart'
  BY <1>1, <1>2, <1>3 DEF ShownApart
<1> QED
  BY <1>4, <1>5, <1>6, <1>7, <1>8, <1>9 DEF OrderInv

(* What the screen does with the images presented.                         *)
LEMMA VBlankEffect ==
  ASSUME TypeOK, VBlank
  PROVE  /\ 1 \in DOMAIN flipQueue /\ flipQueue[1] \in Images
         /\ displayed' = {flipQueue[1]} /\ scanout' = scanout \cup {flipQueue[1]}
         /\ available' = available \cup displayed /\ flipQueue' \in Seq(Images)
         /\ \A n \in DOMAIN flipQueue' :
              n \in Nat \ {0} /\ n + 1 \in DOMAIN flipQueue /\ flipQueue'[n] = flipQueue[n + 1]
         /\ Shown' \subseteq Shown
         /\ UNCHANGED <<crashed, currentBackgroundEffect_, backgroundEffects_, uiNext, uiBuffer,
                        queue, lenient, asked, layout, content>>
<1>1. /\ flipQueue # <<>> /\ flipQueue' = Tail(flipQueue)
      /\ displayed' = {Head(flipQueue)} /\ scanout' = scanout \cup {Head(flipQueue)}
      /\ available' = available \cup displayed
      /\ UNCHANGED <<crashed, currentBackgroundEffect_, backgroundEffects_, uiNext, uiBuffer,
                     queue, lenient, asked, layout, content>>
  BY DEF VBlank, uiVars, imageVars, ghostVars
<1>2. flipQueue \in Seq(Images)
  BY DEF TypeOK
<1>3. /\ 1 \in DOMAIN flipQueue /\ Head(flipQueue) = flipQueue[1]
      /\ \A n \in DOMAIN Tail(flipQueue) :
           n \in Nat \ {0} /\ n + 1 \in DOMAIN flipQueue /\ Tail(flipQueue)[n] = flipQueue[n + 1]
  BY <1>1, <1>2, TailShifts
<1>4. flipQueue[1] \in Images /\ flipQueue' \in Seq(Images)
  BY <1>1, <1>2, <1>3
<1>5. Shown' \subseteq Shown
  BY <1>1, <1>3 DEF Shown
<1> QED
  BY <1>1, <1>3, <1>4, <1>5

(* The image shown next is in no frame's hands, and the last one is free.  *)
LEMMA VBlankKeepsOrder == OrderInv /\ VBlank => OrderInv'
<1> SUFFICES ASSUME OrderInv, VBlank PROVE OrderInv'
  OBVIOUS
<1>1. TypeOK /\ DoneInOrder /\ Serial /\ Unread /\ HeldApart /\ ShownApart
  BY DEF OrderInv
<1>2. /\ 1 \in DOMAIN flipQueue /\ flipQueue[1] \in Images
      /\ displayed' = {flipQueue[1]} /\ scanout' = scanout \cup {flipQueue[1]}
      /\ available' = available \cup displayed /\ flipQueue' \in Seq(Images)
      /\ \A n \in DOMAIN flipQueue' :
           n \in Nat \ {0} /\ n + 1 \in DOMAIN flipQueue /\ flipQueue'[n] = flipQueue[n + 1]
      /\ Shown' \subseteq Shown
      /\ UNCHANGED <<crashed, currentBackgroundEffect_, backgroundEffects_, uiNext, uiBuffer,
                     queue, lenient, asked, layout, content>>
  BY <1>1, VBlankEffect
<1>3. flipQueue[1] \in Shown /\ displayed \subseteq Shown
  BY <1>2 DEF Shown
<1>4. TypeOK'
  BY <1>1, <1>2 DEF TypeOK
<1>5. DoneInOrder' /\ Serial'
  BY <1>1, <1>2 DEF DoneInOrder, Serial
<1>6. Unread'
  BY <1>1, <1>2, <1>3 DEF Unread, HeldApart, InHand
<1>7. HeldApart'
  BY <1>1, <1>2, <1>3 DEF HeldApart, InHand
<1>8. ShownApart'
  <2>1. \A n \in DOMAIN flipQueue' : n + 1 # 1
    BY <1>2
  <2>2. \A n \in DOMAIN flipQueue' : flipQueue'[n] \notin displayed'
    BY <1>1, <1>2, <2>1 DEF ShownApart
  <2>3. \A n, l \in DOMAIN flipQueue' : n + 1 = l + 1 => n = l
    BY <1>2
  <2>4. \A n, l \in DOMAIN flipQueue' : flipQueue'[n] = flipQueue'[l] => n = l
    BY <1>1, <1>2, <2>3 DEF ShownApart
  <2>5. Shown' \cap displayed = {}
    BY <1>1, <1>2 DEF ShownApart, Shown
  <2>6. available' \cap Shown' = {}
    BY <1>1, <1>2, <2>5 DEF ShownApart
  <2> QED
    BY <2>2, <2>4, <2>6 DEF ShownApart
<1> QED
  BY <1>4, <1>5, <1>6, <1>7, <1>8 DEF OrderInv

(* The rest of the steps change no frame and no image's place.             *)
LEMMA OtherStepsKeepOrder ==
  OrderInv /\ (SliderOutOfRange \/ ScanoutEnds \/ UNCHANGED vars) => OrderInv'
<1> SUFFICES ASSUME OrderInv, SliderOutOfRange \/ ScanoutEnds \/ UNCHANGED vars PROVE OrderInv'
  OBVIOUS
<1>1. TypeOK /\ DoneInOrder /\ Serial /\ Unread /\ HeldApart /\ ShownApart
  BY DEF OrderInv
<1>2. /\ crashed' \in BOOLEAN /\ scanout' \subseteq scanout
      /\ UNCHANGED <<currentBackgroundEffect_, backgroundEffects_, uiNext, uiBuffer, queue,
                     lenient, asked, layout, content, available, flipQueue, displayed>>
  <2>1. CASE SliderOutOfRange
    BY <2>1 DEF SliderOutOfRange, uiVars, imageVars, presentVars, ghostVars
  <2>2. CASE ScanoutEnds
    BY <1>1, <2>2 DEF ScanoutEnds, uiVars, imageVars, ghostVars, TypeOK
  <2>3. CASE UNCHANGED vars
    BY <1>1, <2>3 DEF vars, uiVars, imageVars, presentVars, ghostVars, TypeOK
  <2> QED
    BY <2>1, <2>2, <2>3
<1>3. Shown' = Shown
  BY <1>2 DEF Shown
<1>4. TypeOK'
  BY <1>1, <1>2 DEF TypeOK
<1>5. DoneInOrder' /\ Serial'
  BY <1>1, <1>2 DEF DoneInOrder, Serial
<1>6. Unread'
  BY <1>1, <1>2 DEF Unread, InHand
<1>7. HeldApart'
  BY <1>1, <1>2, <1>3 DEF HeldApart, InHand
<1>8. ShownApart'
  BY <1>1, <1>2, <1>3 DEF ShownApart
<1> QED
  BY <1>4, <1>5, <1>6, <1>7, <1>8 DEF OrderInv

(* Every step is one of these.                                             *)
LEMMA StepCases ==
  ASSUME [Next]_vars
  PROVE  \/ BuildUiAndDraw \/ Complete \/ VBlank
         \/ \E k \in DOMAIN queue, i \in Places : Execute(k, i)
         \/ SliderOutOfRange \/ ScanoutEnds \/ UNCHANGED vars
  BY DEF Next, Crashed

(* The order of execution and the places of the images are invariant.     *)
LEMMA NextKeepsOrder == OrderInv /\ [Next]_vars => OrderInv'
<1> SUFFICES ASSUME OrderInv, [Next]_vars PROVE OrderInv'
  OBVIOUS
<1>1. ASSUME NEW k \in DOMAIN queue, NEW i \in Places, Execute(k, i)
      PROVE  OrderInv'
  BY <1>1, ExecuteKeepsOrder, SignalKeepsOrder
<1> QED
  BY <1>1, StepCases, DrawKeepsOrder, CompleteKeepsOrder, VBlankKeepsOrder, OtherStepsKeepOrder

(* Two frames in flight run their commands one after the other, and every  *)
(* image is in one place: with a frame, presented, shown or available.     *)
THEOREM OrderInvariance == Spec => []OrderInv
<1>1. Init => OrderInv
  BY InitOrder
<1>2. OrderInv /\ [Next]_vars => OrderInv'
  BY NextKeepsOrder
<1> QED
  BY <1>1, <1>2, PTL DEF Spec

(* The variables of a frame's commands have their types.                   *)
THEOREM CommandsTypeCorrect == Spec => []TypeOK
<1>1. OrderInv => TypeOK
  BY DEF OrderInv
<1> QED
  BY <1>1, OrderInvariance, PTL

(* The barriers of draw(), with the semaphores' stages, make the queue     *)
(* execute a frame after the frame before it, though vkQueueSubmit2 does   *)
(* not: what FrameLoop assumes.                                            *)
THEOREM FramesExecuteSerially == Spec => []ExecutionIsSerial
<1>1. OrderInv => ExecutionIsSerial
  <2> SUFFICES ASSUME OrderInv, NEW k \in 2 .. Len(queue), queue[k].done # {},
                      NEW i \in Places, Commands[i].op # "signal"
               PROVE  Executed(queue[k - 1], i)
    BY DEF ExecutionIsSerial
  <2>1. TypeOK /\ DoneInOrder /\ Serial /\ Unread
    BY DEF OrderInv
  <2>2. k \in DOMAIN queue /\ k - 1 \in DOMAIN queue /\ k - 1 < k
    <3>1. queue \in Seq(Frames)
      BY <2>1, FrameTypes
    <3>2. DOMAIN queue = 1 .. Len(queue) /\ Len(queue) \in Nat
      BY <3>1
    <3> QED
      BY <3>2
  <2>3. 8 \in queue[k - 1].done /\ Follows(queue[k - 1].done)
    BY <2>1, <2>2 DEF Serial, DoneInOrder
  <2>4. \A j \in 2 .. 8 : j \in queue[k - 1].done
    BY <2>3 DEF Follows
  <2>5. CASE i = 1
    <3>1. AcquireSignalled(queue[k - 1])
      BY <2>1, <2>2, <2>4, CommandPlaces DEF Unread, InHand, AcquireSignalled
    <3> QED
      BY <2>5, <3>1, CommandPlaces DEF Executed
  <2>6. CASE i # 1
    <3>1. i \in 2 .. 8
      BY <2>6, CommandPlaces
    <3> QED
      BY <2>4, <3>1 DEF Executed
  <2> QED
    BY <2>5, <2>6
<1> QED
  BY <1>1, OrderInvariance, PTL

-------------------------------------------------------------------------------
(* The frame that executes: the frames before it have only their signal    *)
(* left and those after it have not begun, and it alone has its image,     *)
(* which the screen does not read.                                         *)
LEMMA Executing ==
  ASSUME OrderInv, NEW k \in DOMAIN queue, NEW i \in 2 .. 8, i \in Places, Execute(k, i)
  PROVE  /\ InHand(k) /\ 8 \notin queue[k].done /\ i \notin queue[k].done
         /\ \A m \in DOMAIN queue : m < k => \A j \in 2 .. 8 : j \in queue[m].done
         /\ \A m \in DOMAIN queue : k < m => queue[m].done = {}
         /\ \A m \in DOMAIN queue : m # k /\ InHand(m) => queue[m].image # queue[k].image
         /\ queue[k].image \notin available \cup Shown /\ queue[k].image \notin scanout
         /\ queue[k].image \in Images
         /\ \A j \in Images : j \in AllImages /\ j # DrawImage
<1>1. TypeOK /\ DoneInOrder /\ Serial /\ Unread /\ HeldApart
  BY DEF OrderInv
<1>2. Ready(k, i) /\ i \in 2 .. 9
  BY <1>1, ExecutePlace
<1>3. i \notin queue[k].done
  BY <1>1, <1>2, ReadyPlace
<1>4. Follows(queue[k].done)
  BY <1>1 DEF DoneInOrder
<1>5. 8 \notin queue[k].done /\ 9 \notin queue[k].done
  BY <1>3, <1>4 DEF Follows
<1>6. i # 2 => 2 \in queue[k].done
  <2>1. /\ i = 3 => 2 \in queue[k].done
        /\ i = 4 => 3 \in queue[k].done
        /\ i = 5 => 4 \in queue[k].done
        /\ i = 6 => 5 \in queue[k].done
        /\ i = 7 => 5 \in queue[k].done
        /\ i = 8 => 6 \in queue[k].done
    BY <1>1, <1>2, ReadyPlace
  <2> QED
    BY <1>4, <2>1 DEF Follows
<1>7. queue[k].image \notin scanout
  <2>1. i = 2 /\ InHand(k) => queue[k].image \notin scanout
    BY <1>1, <1>2, ReadyPlace
  <2> QED
    BY <1>1, <1>5, <1>6, <2>1 DEF Unread, InHand
<1>8. \A m \in DOMAIN queue : m < k => \A j \in 2 .. 8 : j \in queue[m].done
  <2>1. queue' = [queue EXCEPT ![k].done = @ \cup {i}]
    BY <1>1, ExecutePlace
  <2>2. /\ DOMAIN queue' = DOMAIN queue /\ i \in queue'[k].done
        /\ \A m \in DOMAIN queue : m # k => queue'[m].done = queue[m].done
    BY <1>1, <2>1, ExecutedOne
  <2>3. Serial'
    BY ExecuteKeepsPlaces
  <2>4. ASSUME NEW m \in DOMAIN queue, m < k
        PROVE  m # k
    BY <1>1, <2>4, FrameTypes
  <2>5. \A m \in DOMAIN queue : m < k => 8 \in queue[m].done
    BY <2>2, <2>3, <2>4 DEF Serial
  <2>6. ASSUME NEW d, Follows(d), 8 \in d
        PROVE  \A j \in 2 .. 8 : j \in d
    BY <2>6 DEF Follows
  <2> QED
    BY <1>1, <2>5, <2>6 DEF DoneInOrder
<1>9. \A m \in DOMAIN queue : k < m => queue[m].done = {}
  BY <1>1, <1>5 DEF Serial
<1>10. \A m \in DOMAIN queue : m # k /\ InHand(m) => queue[m].image # queue[k].image
  BY <1>1, <1>5 DEF HeldApart, InHand
<1>11. queue[k].image \notin available \cup Shown
  BY <1>1, <1>5 DEF HeldApart, InHand
<1>12. queue[k].image \in Images
  BY <1>1, FrameTypes
<1>13. \A j \in Images : j \in AllImages /\ j # DrawImage
  BY DrawImageAssumption DEF AllImages
<1> QED
  BY <1>3, <1>5, <1>7, <1>8, <1>9, <1>10, <1>11, <1>12, <1>13 DEF InHand

(* Steps other than a command before the signal leave the images alone.    *)
LEMMA OtherStepsKeepImages ==
  ASSUME TypeOK, [Next]_vars
  PROVE  \/ layout' = layout /\ content' = content
         \/ \E k \in DOMAIN queue, i \in Places : i \in 2 .. 8 /\ Execute(k, i)
<1>1. CASE BuildUiAndDraw
  BY <1>1, DrawEffect
<1>2. CASE Complete
  BY <1>2, CompletedOne
<1>3. CASE VBlank
  BY <1>3, VBlankEffect
<1>4. ASSUME NEW k \in DOMAIN queue, NEW i \in Places, Execute(k, i), i \notin 2 .. 8
      PROVE  layout' = layout /\ content' = content
  <2>1. i \in 2 .. 9 /\ (i = 9 => layout' = layout /\ content' = content)
    BY <1>4, ExecutePlace
  <2> QED
    BY <1>4, <2>1
<1>5. CASE SliderOutOfRange \/ ScanoutEnds \/ UNCHANGED vars
  BY <1>5 DEF SliderOutOfRange, ScanoutEnds, vars, imageVars
<1> QED
  BY <1>1, <1>2, <1>3, <1>4, <1>5, StepCases

(* No step touches an image that the screen reads.                         *)
LEMMA ReadIsUntouched ==
  ASSUME OrderInv, [Next]_vars, NEW j \in scanout
  PROVE  content'[j] = content[j] /\ layout'[j] = layout[j]
<1>1. TypeOK
  BY DEF OrderInv
<1>2. j \in Images
  BY <1>1 DEF TypeOK
<1>3. ASSUME NEW k \in DOMAIN queue, NEW i \in Places, i \in 2 .. 8, Execute(k, i)
      PROVE  content'[j] = content[j] /\ layout'[j] = layout[j]
  <2>1. queue[k].image # j /\ j \in AllImages /\ j # DrawImage
    BY <1>2, <1>3, Executing
  <2>2. j # Written(k, i)
    BY <2>1 DEF Written
  <2>3. j # Written(k, i) => content'[j] = content[j] /\ layout'[j] = layout[j]
    BY <1>1, <1>3, <2>1, ExecuteEffect
  <2> QED
    BY <2>2, <2>3
<1> QED
  BY <1>1, <1>3, OtherStepsKeepImages

(* No command touches an image of the swapchain while the screen reads it: *)
(* the blit and the transition do not wait for the acquire, but the first  *)
(* transition does, and they wait for that.                                *)
THEOREM ScreenReadsInPeace == Spec => NoWriteWhileRead
<1>1. OrderInv /\ [Next]_vars =>
        [\A i \in scanout : content'[i] = content[i] /\ layout'[i] = layout[i]]_vars
  BY ReadIsUntouched
<1> QED
  BY <1>1, OrderInvariance, PTL DEF Spec, NoWriteWhileRead

-------------------------------------------------------------------------------
(* A command before the signal, executed by a frame, with all that the     *)
(* arguments about the images need of it.                                  *)
LEMMA CommandStep ==
  ASSUME OrderInv, NEW k \in DOMAIN queue, NEW i \in 2 .. 8, i \in Places, Execute(k, i)
  PROVE  /\ DOMAIN queue' = DOMAIN queue /\ Len(queue') = Len(queue)
         /\ \A m \in DOMAIN queue :
              /\ queue'[m].image = queue[m].image /\ queue'[m].pushed = queue[m].pushed
              /\ queue'[m].buffer = queue[m].buffer
              /\ m # k => queue'[m].done = queue[m].done
         /\ queue'[k].done = queue[k].done \cup {i}
         /\ Shown' = Shown
         /\ UNCHANGED <<asked, uiNext, uiBuffer, flipQueue, displayed>>
<1>1. TypeOK /\ i # 9
  BY DEF OrderInv
<1>2. /\ queue' = [queue EXCEPT ![k].done = @ \cup {i}]
      /\ UNCHANGED <<uiVars, ghostVars>> /\ UNCHANGED presentVars
  BY <1>1, ExecutePlace
<1>3. UNCHANGED <<asked, uiNext, uiBuffer, flipQueue, displayed>>
  BY <1>2 DEF uiVars, ghostVars, presentVars
<1>4. Shown' = Shown
  BY <1>3 DEF Shown
<1> QED
  BY <1>1, <1>2, <1>3, <1>4, ExecutedOne

(* The signal moves the frame's image from its hands to the shown ones.    *)
LEMMA SignalStep ==
  ASSUME OrderInv, NEW k \in DOMAIN queue, NEW i \in Places, i \notin 2 .. 8, Execute(k, i)
  PROVE  /\ DOMAIN queue' = DOMAIN queue /\ Len(queue') = Len(queue)
         /\ \A m \in DOMAIN queue :
              /\ queue'[m].image = queue[m].image /\ queue'[m].pushed = queue[m].pushed
              /\ queue'[m].buffer = queue[m].buffer
              /\ m # k => queue'[m].done = queue[m].done
         /\ queue'[k].done = queue[k].done \cup {9}
         /\ Shown' = Shown \cup {queue[k].image} /\ queue[k].image \in Images
         /\ InHand(k) /\ \A j \in 2 .. 8 : j \in queue[k].done
         /\ UNCHANGED <<asked, uiNext, uiBuffer, layout, content>>
<1>1. TypeOK /\ DoneInOrder
  BY DEF OrderInv
<1>2. /\ i = 9 /\ Ready(k, i) /\ queue' = [queue EXCEPT ![k].done = @ \cup {i}]
  <2>1. i \in 2 .. 9 /\ Ready(k, i) /\ queue' = [queue EXCEPT ![k].done = @ \cup {i}]
    BY <1>1, ExecutePlace
  <2> QED
    BY <2>1
<1>3. /\ flipQueue' = Append(flipQueue, queue[k].image)
      /\ UNCHANGED <<asked, uiNext, uiBuffer, layout, content, displayed>>
  BY <1>1, <1>2, ExecutePlace DEF uiVars, ghostVars
<1>4. 9 \notin queue[k].done /\ 8 \in queue[k].done
  BY <1>1, <1>2, ReadyPlace
<1>5. \A j \in 2 .. 8 : j \in queue[k].done
  <2>1. Follows(queue[k].done)
    BY <1>1 DEF DoneInOrder
  <2> QED
    BY <1>4, <2>1 DEF Follows
<1>6. queue[k].image \in Images /\ flipQueue \in Seq(Images)
  BY <1>1, FrameTypes DEF TypeOK
<1>7. Shown' = Shown \cup {queue[k].image}
  <2>1. /\ DOMAIN flipQueue' = DOMAIN flipQueue \cup {Len(flipQueue) + 1}
        /\ flipQueue'[Len(flipQueue) + 1] = queue[k].image
        /\ \A n \in DOMAIN flipQueue : flipQueue'[n] = flipQueue[n]
    BY <1>3, <1>6, AppendedLast
  <2> QED
    BY <1>3, <2>1 DEF Shown
<1> QED
  BY <1>1, <1>2, <1>3, <1>4, <1>5, <1>6, <1>7, ExecutedOne DEF InHand

(* Nothing is in a frame's hands or shown at the start.                    *)
LEMMA NothingAtInit ==
  ASSUME Init
  PROVE  DOMAIN queue = {} /\ Len(queue) = 0 /\ Shown = {}
<1>1. queue = <<>> /\ flipQueue = <<>> /\ displayed = {} /\ DOMAIN flipQueue = {}
  BY DEF Init
<1> QED
  BY <1>1 DEF Shown

(* A new frame at the queue's end, the others where they were.             *)
LEMMA DrawStep ==
  ASSUME OrderInv, BuildUiAndDraw
  PROVE  \E f \in Frames :
           /\ Len(queue) < FRAME_OVERLAP /\ Len(queue') = Len(queue) + 1
           /\ DOMAIN queue' = DOMAIN queue \cup {Len(queue) + 1}
           /\ Len(queue) + 1 \notin DOMAIN queue /\ queue'[Len(queue) + 1] = f
           /\ \A m \in DOMAIN queue :
                /\ queue'[m] = queue[m]
                /\ 9 \notin queue[m].done => queue[m].image # f.image
           /\ f.image \in Images /\ f.image \notin Shown /\ f.done = {} /\ f.buffer = uiNext
           /\ f.pushed \in Looks
           /\ asked' = [asked EXCEPT ![f.image] = f.pushed]
           /\ uiBuffer' = [uiBuffer EXCEPT ![uiNext] = f.pushed]
           /\ uiNext \in 0 .. ImageCount - 1 /\ uiNext' = (uiNext + 1) % ImageCount
           /\ Shown' = Shown /\ UNCHANGED <<layout, content>>
<1>1. TypeOK /\ HeldApart /\ ShownApart
  BY DEF OrderInv
<1>2. /\ Len(queue) < FRAME_OVERLAP
      /\ uiNext \in 0 .. ImageCount - 1 /\ uiNext' = (uiNext + 1) % ImageCount
      /\ UNCHANGED <<layout, content, flipQueue, displayed>>
  BY <1>1, DrawEffect
<1>3. PICK f \in Frames :
        /\ f.image \in available /\ f.image \in Images /\ f.buffer = uiNext /\ f.done = {}
        /\ f.pushed \in Looks
        /\ queue' = Append(queue, f)
        /\ asked' = [asked EXCEPT ![f.image] = f.pushed]
        /\ uiBuffer' = [uiBuffer EXCEPT ![uiNext] = f.pushed]
  BY <1>1, DrawEffect
<1>4. queue \in Seq(Frames)
  BY <1>1, FrameTypes
<1>5. /\ Len(queue) + 1 \notin DOMAIN queue
      /\ DOMAIN queue' = DOMAIN queue \cup {Len(queue) + 1}
      /\ queue'[Len(queue) + 1] = f
      /\ \A m \in DOMAIN queue : queue'[m] = queue[m]
  BY <1>3, <1>4, AppendedLast
<1>6. Len(queue') = Len(queue) + 1
  BY <1>3, <1>4
<1>7. f.image \notin Shown
  BY <1>1, <1>3 DEF ShownApart
<1>8. \A m \in DOMAIN queue : 9 \notin queue[m].done => queue[m].image # f.image
  BY <1>1, <1>3 DEF HeldApart, InHand
<1>9. Shown' = Shown
  BY <1>2 DEF Shown
<1> QED
  BY <1>2, <1>3, <1>5, <1>6, <1>7, <1>8, <1>9

-------------------------------------------------------------------------------
(* The layouts.                                                            *)

(* A transition leaves the layout that the next command names, and no      *)
(* other frame's.                                                          *)
LEMMA CommandKeepsLayouts ==
  ASSUME OrderInv, LayoutInv, NEW k \in DOMAIN queue, NEW i \in 2 .. 8, i \in Places, Execute(k, i)
  PROVE  LayoutInv'
<1>1. TypeOK /\ DoneInOrder
  BY DEF OrderInv
<1>2. /\ DOMAIN queue' = DOMAIN queue
      /\ \A m \in DOMAIN queue : /\ queue'[m].image = queue[m].image
                                 /\ m # k => queue'[m].done = queue[m].done
      /\ queue'[k].done = queue[k].done \cup {i} /\ Shown' = Shown
  BY CommandStep
<1>3. /\ 9 \notin queue[k].done /\ 8 \notin queue[k].done /\ i \notin queue[k].done
      /\ \A m \in DOMAIN queue : m # k /\ 9 \notin queue[m].done => queue[m].image # queue[k].image
      /\ queue[k].image \notin Shown /\ queue[k].image \in Images
      /\ \A j \in Images : j \in AllImages /\ j # DrawImage
  BY Executing DEF InHand
<1>4. /\ \A j \in AllImages : j # Written(k, i) => layout'[j] = layout[j]
      /\ i \in {2, 4, 5, 8} => layout'[Written(k, i)] = Commands[i].new
      /\ i \in {3, 6, 7} => layout' = layout
  BY <1>1, ExecuteEffect
<1>5. \A m \in DOMAIN queue : queue[m].image \in Images /\ Follows(queue[m].done)
  BY <1>1, FrameTypes DEF DoneInOrder
<1>6. DrawImage \in AllImages
  BY DEF AllImages
<1>7. \A j \in Images : j # queue[k].image => layout'[j] = layout[j]
  BY <1>3, <1>4 DEF Written
<1>8. layout'[DrawImage] = IF i = 4 THEN "TRANSFER_SRC" ELSE layout[DrawImage]
  <2>1. CASE i = 4
    BY <1>4, <2>1, TransitionPlaces DEF Written
  <2>2. CASE i = 3
    BY <1>4, <2>2
  <2>3. CASE i \notin {3, 4}
    BY <1>3, <1>4, <1>6, <2>3 DEF Written
  <2> QED
    BY <2>1, <2>2, <2>3
<1>9. /\ i = 5 => layout'[queue[k].image] = "TRANSFER_DST"
      /\ i = 8 => layout'[queue[k].image] = "PRESENT_SRC"
      /\ i \notin {2, 5, 8} => layout'[queue[k].image] = layout[queue[k].image]
  <2>1. CASE i \in {5, 8}
    BY <1>4, <2>1, TransitionPlaces DEF Written
  <2>2. CASE i \in {3, 6, 7} \/ i = 2
    BY <1>4, <2>2
  <2>3. CASE i = 4
    BY <1>3, <1>4, <2>3 DEF Written
  <2> QED
    BY <2>1, <2>2, <2>3
<1>10. ASSUME NEW m \in DOMAIN queue
       PROVE  /\ 4 \in queue'[m].done => layout'[DrawImage] = "TRANSFER_SRC"
              /\ 5 \in queue'[m].done /\ 8 \notin queue'[m].done =>
                   layout'[queue[m].image] = "TRANSFER_DST"
              /\ 9 \notin queue'[m].done /\ 8 \in queue'[m].done =>
                   layout'[queue[m].image] = "PRESENT_SRC"
  <2>1. /\ 4 \in queue[m].done => layout[DrawImage] = "TRANSFER_SRC"
        /\ 5 \in queue[m].done /\ 8 \notin queue[m].done =>
             layout[queue[m].image] = "TRANSFER_DST"
        /\ 9 \notin queue[m].done /\ 8 \in queue[m].done =>
             layout[queue[m].image] = "PRESENT_SRC"
    BY DEF LayoutInv, InHand
  <2>2. CASE m # k
    <3>1. 8 \notin queue[m].done => 9 \notin queue[m].done
      BY <1>5 DEF Follows
    <3> QED
      BY <1>2, <1>3, <1>5, <1>7, <1>8, <2>1, <2>2, <3>1
  <2>3. CASE m = k
    <3>1. i = 2 => 5 \notin queue[k].done
      BY <1>3, <1>5 DEF Follows
    <3>2. i = 5 => 8 \notin queue[k].done
      BY <1>3
    <3> QED
      BY <1>2, <1>3, <1>8, <1>9, <2>1, <2>3, <3>1, <3>2
  <2> QED
    BY <2>2, <2>3
<1>11. \A j \in Shown : layout'[j] = "PRESENT_SRC"
  <2>1. Shown \subseteq Images
    BY <1>1 DEF Shown, TypeOK
  <2> QED
    BY <1>3, <1>7, <2>1 DEF LayoutInv
<1> QED
  BY <1>2, <1>10, <1>11 DEF LayoutInv, InHand

(* The layouts the blit and the screen name are invariant.                 *)
LEMMA NextKeepsLayouts == OrderInv /\ LayoutInv /\ [Next]_vars => LayoutInv'
<1> SUFFICES ASSUME OrderInv, LayoutInv, [Next]_vars PROVE LayoutInv'
  OBVIOUS
<1>1. TypeOK /\ DoneInOrder
  BY DEF OrderInv
<1>2. CASE BuildUiAndDraw
  <2>1. PICK f \in Frames :
          /\ DOMAIN queue' = DOMAIN queue \cup {Len(queue) + 1}
          /\ queue'[Len(queue) + 1] = f /\ f.done = {}
          /\ \A m \in DOMAIN queue : queue'[m] = queue[m]
          /\ Shown' = Shown /\ layout' = layout
    BY <1>2, DrawStep
  <2> QED
    BY <2>1 DEF LayoutInv, InHand
<1>3. CASE Complete
  <2>1. /\ UNCHANGED <<layout, flipQueue, displayed>>
        /\ \A k \in DOMAIN queue' : k + 1 \in DOMAIN queue /\ queue'[k] = queue[k + 1]
    BY <1>1, <1>3, CompletedOne
  <2>2. Shown' = Shown
    BY <2>1 DEF Shown
  <2> QED
    BY <2>1, <2>2 DEF LayoutInv, InHand
<1>4. CASE VBlank
  <2>1. Shown' \subseteq Shown /\ UNCHANGED <<queue, layout>>
    BY <1>1, <1>4, VBlankEffect
  <2> QED
    BY <2>1 DEF LayoutInv, InHand
<1>5. ASSUME NEW k \in DOMAIN queue, NEW i \in Places, Execute(k, i), i \in 2 .. 8
      PROVE  LayoutInv'
  BY <1>5, CommandKeepsLayouts
<1>6. ASSUME NEW k \in DOMAIN queue, NEW i \in Places, Execute(k, i), i \notin 2 .. 8
      PROVE  LayoutInv'
  <2>1. /\ DOMAIN queue' = DOMAIN queue
        /\ \A m \in DOMAIN queue : /\ queue'[m].image = queue[m].image
                                   /\ m # k => queue'[m].done = queue[m].done
        /\ queue'[k].done = queue[k].done \cup {9}
        /\ Shown' = Shown \cup {queue[k].image} /\ layout' = layout
        /\ 9 \notin queue[k].done /\ \A j \in 2 .. 8 : j \in queue[k].done
    BY <1>6, SignalStep DEF InHand
  <2>2. layout[queue[k].image] = "PRESENT_SRC"
    BY <2>1 DEF LayoutInv, InHand
  <2>3. \A m \in DOMAIN queue : /\ (4 \in queue'[m].done) = (4 \in queue[m].done)
                                /\ (5 \in queue'[m].done) = (5 \in queue[m].done)
                                /\ (8 \in queue'[m].done) = (8 \in queue[m].done)
                                /\ 9 \notin queue'[m].done => 9 \notin queue[m].done
    BY <2>1
  <2> QED
    BY <2>1, <2>2, <2>3 DEF LayoutInv, InHand
<1>7. CASE SliderOutOfRange \/ ScanoutEnds \/ UNCHANGED vars
  <2>1. UNCHANGED <<queue, layout, flipQueue, displayed>>
    BY <1>7 DEF SliderOutOfRange, ScanoutEnds, vars, imageVars, presentVars
  <2>2. Shown' = Shown
    BY <2>1 DEF Shown
  <2> QED
    BY <2>1, <2>2 DEF LayoutInv, InHand
<1> QED
  BY <1>2, <1>3, <1>4, <1>5, <1>6, <1>7, StepCases

(* The blit meets both of its images, and the screen the image presented,  *)
(* in the layouts they name.                                               *)
THEOREM LayoutsMeetTheirUse == Spec => []LayoutsAsNamed
<1>1. Init => LayoutInv
  BY NothingAtInit DEF LayoutInv
<1>2. OrderInv /\ LayoutInv => LayoutsAsNamed
  <2> SUFFICES ASSUME OrderInv, LayoutInv, NEW k \in DOMAIN queue, NEW i \in Places,
                      Commands[i].op = "blit", Ready(k, i)
               PROVE  layout[DrawImage] = "TRANSFER_SRC" /\ layout[queue[k].image] = "TRANSFER_DST"
    BY DEF LayoutsAsNamed, LayoutInv
  <2>1. TypeOK /\ DoneInOrder
    BY DEF OrderInv
  <2>2. i = 6 /\ i \in 2 .. 9
    BY CommandPlaces
  <2>3. 6 \notin queue[k].done /\ 5 \in queue[k].done
    BY <2>1, <2>2, ReadyPlace
  <2>4. 4 \in queue[k].done /\ 8 \notin queue[k].done
    BY <2>1, <2>3 DEF DoneInOrder, Follows
  <2> QED
    BY <2>3, <2>4 DEF LayoutInv
<1>3. OrderInv /\ LayoutInv /\ [Next]_vars => LayoutInv'
  BY NextKeepsLayouts
<1> QED
  BY <1>1, <1>2, <1>3, OrderInvariance, PTL DEF Spec

-------------------------------------------------------------------------------
(* The backgrounds.                                                        *)

(* What a command leaves of the backgrounds.                               *)
LEMMA BackgroundEffect ==
  ASSUME OrderInv, NEW k \in DOMAIN queue, NEW i \in 2 .. 8, i \in Places, Execute(k, i)
  PROVE  /\ \A j \in Images : j # queue[k].image => content'[j] = content[j]
         /\ i = 3 => content'[DrawImage].background \in {queue[k].pushed, Undefined}
         /\ i # 3 => content'[DrawImage].background \in {content[DrawImage].background, Undefined}
         /\ i = 6 => content'[queue[k].image].background \in
                       {content[DrawImage].background, Undefined}
         /\ i # 6 => content'[queue[k].image].background \in
                       {content[queue[k].image].background, Undefined}
<1>1. TypeOK
  BY DEF OrderInv
<1>2. /\ queue[k].image \in Images
      /\ \A j \in Images : j \in AllImages /\ j # DrawImage
  BY Executing
<1>3. DrawImage \in AllImages
  BY DEF AllImages
<1>4. /\ \A j \in AllImages : j # Written(k, i) => content'[j] = content[j]
      /\ i \in {2, 4, 5, 8} => content'[Written(k, i)] \in {content[Written(k, i)], Garbage}
      /\ i = 3 => content'[DrawImage].background \in {queue[k].pushed, Undefined}
  BY <1>1, ExecuteEffect
<1>5. /\ i = 6 => content'[queue[k].image] \in
                    {[background |-> content[DrawImage].background, ui |-> NoUi], Garbage}
      /\ i = 7 => content'[queue[k].image] \in
                    {[background |-> content[queue[k].image].background,
                      ui |-> uiBuffer[queue[k].buffer]], Garbage}
  BY <1>1, ExecuteEffect
<1>6. Garbage.background = Undefined
  BY DEF Garbage
<1>7. CASE i \in {3, 4}
  <2>1. Written(k, i) = DrawImage
    BY <1>7 DEF Written
  <2> QED
    BY <1>2, <1>3, <1>4, <1>6, <1>7, <2>1
<1>8. CASE i \notin {3, 4}
  <2>1. Written(k, i) = queue[k].image
    BY <1>8 DEF Written
  <2>2. content'[DrawImage] = content[DrawImage]
    BY <1>2, <1>3, <1>4, <2>1
  <2>3. \A j \in Images : j # queue[k].image => content'[j] = content[j]
    BY <1>2, <1>4, <2>1
  <2>4. i = 6 => content'[queue[k].image].background \in {content[DrawImage].background, Undefined}
    BY <1>5, <1>6
  <2>5. i = 7 => content'[queue[k].image].background \in
                   {content[queue[k].image].background, Undefined}
    BY <1>5, <1>6
  <2>6. i \in {2, 5, 8} => content'[queue[k].image].background \in
                             {content[queue[k].image].background, Undefined}
    BY <1>4, <1>6, <2>1
  <2> QED
    BY <1>8, <2>2, <2>3, <2>4, <2>5, <2>6
<1> QED
  BY <1>7, <1>8

(* Only one frame is between its dispatch and its blit.                    *)
LEMMA CommandKeepsBackgrounds ==
  ASSUME OrderInv, BackgroundInv,
         NEW k \in DOMAIN queue, NEW i \in 2 .. 8, i \in Places, Execute(k, i)
  PROVE  BackgroundInv'
<1>1. TypeOK /\ DoneInOrder
  BY DEF OrderInv
<1>2. /\ DOMAIN queue' = DOMAIN queue /\ asked' = asked
      /\ \A m \in DOMAIN queue : /\ queue'[m].image = queue[m].image
                                 /\ queue'[m].pushed = queue[m].pushed
                                 /\ m # k => queue'[m].done = queue[m].done
      /\ queue'[k].done = queue[k].done \cup {i} /\ Shown' = Shown
  BY CommandStep
<1>3. /\ 9 \notin queue[k].done /\ i \notin queue[k].done
      /\ \A m \in DOMAIN queue : m < k => \A j \in 2 .. 8 : j \in queue[m].done
      /\ \A m \in DOMAIN queue : k < m => queue[m].done = {}
      /\ \A m \in DOMAIN queue : m # k /\ 9 \notin queue[m].done => queue[m].image # queue[k].image
      /\ queue[k].image \notin Shown
  BY Executing DEF InHand
<1>4. /\ \A j \in Images : j # queue[k].image => content'[j] = content[j]
      /\ i = 3 => content'[DrawImage].background \in {queue[k].pushed, Undefined}
      /\ i # 3 => content'[DrawImage].background \in {content[DrawImage].background, Undefined}
      /\ i = 6 => content'[queue[k].image].background \in {content[DrawImage].background, Undefined}
      /\ i # 6 => content'[queue[k].image].background \in
                    {content[queue[k].image].background, Undefined}
  BY BackgroundEffect
<1>5. \A m \in DOMAIN queue : m \in Nat /\ queue[m].image \in Images
  BY <1>1, FrameTypes
<1>6. i = 6 => 3 \in queue[k].done
  <2>1. i = 6 => 5 \in queue[k].done
    BY <1>1, ExecutePlace, ReadyPlace
  <2> QED
    BY <1>1, <2>1 DEF DoneInOrder, Follows
<1>7. \A m \in DOMAIN queue :
        /\ 9 \notin queue[m].done => asked[queue[m].image] = queue[m].pushed
        /\ 3 \in queue[m].done /\ 6 \notin queue[m].done =>
             content[DrawImage].background \in {queue[m].pushed, Undefined}
        /\ 9 \notin queue[m].done /\ 6 \in queue[m].done =>
             content[queue[m].image].background \in {queue[m].pushed, Undefined}
  BY DEF BackgroundInv, InHand
<1>8. /\ 3 \in queue'[k].done /\ 6 \notin queue'[k].done =>
           content'[DrawImage].background \in {queue[k].pushed, Undefined}
      /\ 6 \in queue'[k].done =>
           content'[queue[k].image].background \in {queue[k].pushed, Undefined}
  <2>1. CASE i = 3
    BY <1>2, <1>3, <1>4, <1>7, <2>1
  <2>2. CASE i = 6
    BY <1>2, <1>3, <1>4, <1>6, <1>7, <2>2
  <2>3. CASE i \notin {3, 6}
    BY <1>2, <1>3, <1>4, <1>7, <2>3
  <2> QED
    BY <2>1, <2>2, <2>3
<1>9. ASSUME NEW m \in DOMAIN queue, m # k
      PROVE  /\ ~(3 \in queue[m].done /\ 6 \notin queue[m].done)
             /\ 9 \notin queue[m].done /\ 6 \in queue[m].done =>
                  content'[queue[m].image].background \in {queue[m].pushed, Undefined}
  <2>1. m < k \/ k < m
    BY <1>5, <1>9
  <2> QED
    BY <1>3, <1>4, <1>5, <1>7, <1>9, <2>1
<1>10. ASSUME NEW m \in DOMAIN queue
       PROVE  /\ 9 \notin queue'[m].done => asked'[queue'[m].image] = queue'[m].pushed
              /\ 3 \in queue'[m].done /\ 6 \notin queue'[m].done =>
                   content'[DrawImage].background \in {queue'[m].pushed, Undefined}
              /\ 9 \notin queue'[m].done /\ 6 \in queue'[m].done =>
                   content'[queue'[m].image].background \in {queue'[m].pushed, Undefined}
  <2>1. CASE m = k
    BY <1>2, <1>3, <1>7, <1>8, <2>1
  <2>2. CASE m # k
    BY <1>2, <1>7, <1>9, <2>2
  <2> QED
    BY <2>1, <2>2
<1>11. BackgroundIsOwn'
  <2>1. \A j \in Shown : content'[j] = content[j]
    BY <1>1, <1>3, <1>4 DEF Shown, TypeOK
  <2> QED
    BY <1>2, <2>1 DEF BackgroundInv, BackgroundIsOwn
<1> QED
  BY <1>2, <1>10, <1>11 DEF BackgroundInv, InHand

(* The backgrounds are each frame's own, in every step.                    *)
LEMMA NextKeepsBackgrounds == OrderInv /\ BackgroundInv /\ [Next]_vars => BackgroundInv'
<1> SUFFICES ASSUME OrderInv, BackgroundInv, [Next]_vars PROVE BackgroundInv'
  OBVIOUS
<1>1. TypeOK /\ DoneInOrder
  BY DEF OrderInv
<1>2. CASE BuildUiAndDraw
  <2>1. PICK f \in Frames :
          /\ DOMAIN queue' = DOMAIN queue \cup {Len(queue) + 1}
          /\ queue'[Len(queue) + 1] = f /\ f.done = {}
          /\ \A m \in DOMAIN queue : /\ queue'[m] = queue[m]
                                     /\ 9 \notin queue[m].done => queue[m].image # f.image
          /\ f.image \in Images /\ f.image \notin Shown
          /\ asked' = [asked EXCEPT ![f.image] = f.pushed]
          /\ Shown' = Shown /\ content' = content
    BY <1>2, DrawStep
  <2>2. asked \in [Images -> Looks]
    BY <1>1 DEF TypeOK
  <2>3. asked'[f.image] = f.pushed /\ \A j \in Images : j # f.image => asked'[j] = asked[j]
    BY <2>1, <2>2
  <2>4. \A m \in DOMAIN queue : queue[m].image \in Images
    BY <1>1, FrameTypes
  <2>5. BackgroundIsOwn'
    <3>1. Shown \subseteq Images
      BY <1>1 DEF Shown, TypeOK
    <3> QED
      BY <2>1, <2>3, <3>1 DEF BackgroundInv, BackgroundIsOwn
  <2>6. ASSUME NEW m \in DOMAIN queue'
        PROVE  /\ 9 \notin queue'[m].done => asked'[queue'[m].image] = queue'[m].pushed
               /\ 3 \in queue'[m].done /\ 6 \notin queue'[m].done =>
                    content'[DrawImage].background \in {queue'[m].pushed, Undefined}
               /\ 9 \notin queue'[m].done /\ 6 \in queue'[m].done =>
                    content'[queue'[m].image].background \in {queue'[m].pushed, Undefined}
    <3>1. CASE m \in DOMAIN queue
      BY <2>1, <2>3, <2>4, <3>1 DEF BackgroundInv, InHand
    <3>2. CASE m \notin DOMAIN queue
      BY <2>1, <2>3, <3>2
    <3> QED
      BY <3>1, <3>2
  <2> QED
    BY <2>5, <2>6 DEF BackgroundInv, InHand
<1>3. CASE Complete
  <2>1. /\ UNCHANGED <<asked, content, flipQueue, displayed>>
        /\ \A k \in DOMAIN queue' : k + 1 \in DOMAIN queue /\ queue'[k] = queue[k + 1]
    BY <1>1, <1>3, CompletedOne
  <2>2. Shown' = Shown
    BY <2>1 DEF Shown
  <2> QED
    BY <2>1, <2>2 DEF BackgroundInv, BackgroundIsOwn, InHand
<1>4. CASE VBlank
  <2>1. Shown' \subseteq Shown /\ UNCHANGED <<queue, asked, content>>
    BY <1>1, <1>4, VBlankEffect
  <2> QED
    BY <2>1 DEF BackgroundInv, BackgroundIsOwn, InHand
<1>5. ASSUME NEW k \in DOMAIN queue, NEW i \in Places, Execute(k, i), i \in 2 .. 8
      PROVE  BackgroundInv'
  BY <1>5, CommandKeepsBackgrounds
<1>6. ASSUME NEW k \in DOMAIN queue, NEW i \in Places, Execute(k, i), i \notin 2 .. 8
      PROVE  BackgroundInv'
  <2>1. /\ DOMAIN queue' = DOMAIN queue /\ UNCHANGED <<asked, content>>
        /\ \A m \in DOMAIN queue : /\ queue'[m].image = queue[m].image
                                   /\ queue'[m].pushed = queue[m].pushed
                                   /\ m # k => queue'[m].done = queue[m].done
        /\ queue'[k].done = queue[k].done \cup {9}
        /\ Shown' = Shown \cup {queue[k].image}
        /\ 9 \notin queue[k].done /\ \A j \in 2 .. 8 : j \in queue[k].done
    BY <1>6, SignalStep DEF InHand
  <2>2. content[queue[k].image].background \in {asked[queue[k].image], Undefined}
    BY <2>1 DEF BackgroundInv, InHand
  <2>3. BackgroundIsOwn'
    BY <2>1, <2>2 DEF BackgroundInv, BackgroundIsOwn
  <2>4. \A m \in DOMAIN queue : /\ (3 \in queue'[m].done) = (3 \in queue[m].done)
                                /\ (6 \in queue'[m].done) = (6 \in queue[m].done)
                                /\ 9 \notin queue'[m].done => 9 \notin queue[m].done
    BY <2>1
  <2> QED
    BY <2>1, <2>3, <2>4 DEF BackgroundInv, InHand
<1>7. CASE SliderOutOfRange \/ ScanoutEnds \/ UNCHANGED vars
  <2>1. UNCHANGED <<queue, asked, content, flipQueue, displayed>>
    BY <1>7 DEF SliderOutOfRange, ScanoutEnds, vars, imageVars, presentVars, ghostVars
  <2>2. Shown' = Shown
    BY <2>1 DEF Shown
  <2> QED
    BY <2>1, <2>2 DEF BackgroundInv, BackgroundIsOwn, InHand
<1> QED
  BY <1>2, <1>3, <1>4, <1>5, <1>6, <1>7, StepCases

(* Though the frames in flight share drawImage_, what is shown never has   *)
(* another frame's background.                                             *)
THEOREM BackgroundsAreOwn == Spec => []BackgroundIsOwn
<1>1. Init => BackgroundInv
  BY NothingAtInit DEF BackgroundInv, BackgroundIsOwn
<1>2. BackgroundInv => BackgroundIsOwn
  BY DEF BackgroundInv
<1>3. OrderInv /\ BackgroundInv /\ [Next]_vars => BackgroundInv'
  BY NextKeepsBackgrounds
<1> QED
  BY <1>1, <1>2, <1>3, OrderInvariance, PTL DEF Spec

-------------------------------------------------------------------------------
(* The interfaces.  ImGui's vertex buffers are used in turn, so a frame's  *)
(* is its own as long as there are as many of them as frames in flight:    *)
(* the code has ImageCount = 3 of them and FRAME_OVERLAP = 2.              *)

(* What a command leaves of the interfaces.                                *)
LEMMA InterfaceEffect ==
  ASSUME OrderInv, NEW k \in DOMAIN queue, NEW i \in 2 .. 8, i \in Places, Execute(k, i)
  PROVE  /\ \A j \in Images : j # queue[k].image => content'[j] = content[j]
         /\ i = 7 => content'[queue[k].image].ui \in {uiBuffer[queue[k].buffer], Undefined}
         /\ i # 7 => content'[queue[k].image].ui \in
                       {content[queue[k].image].ui, NoUi, Undefined}
<1>1. TypeOK
  BY DEF OrderInv
<1>2. /\ queue[k].image \in Images
      /\ \A j \in Images : j \in AllImages /\ j # DrawImage
      /\ \A j \in Images : j # queue[k].image => content'[j] = content[j]
  BY Executing, BackgroundEffect
<1>3. Garbage.ui = Undefined
  BY DEF Garbage
<1>4. CASE i \in {3, 4}
  <2>1. Written(k, i) = DrawImage
    BY <1>4 DEF Written
  <2>2. \A j \in AllImages : j # Written(k, i) => content'[j] = content[j]
    BY <1>1, ExecuteEffect
  <2> QED
    BY <1>2, <1>4, <2>1, <2>2
<1>5. CASE i \in {2, 5, 8}
  <2>1. Written(k, i) = queue[k].image
    BY <1>5 DEF Written
  <2>2. content'[Written(k, i)] \in {content[Written(k, i)], Garbage}
    BY <1>1, <1>5, ExecuteEffect
  <2> QED
    BY <1>2, <1>3, <1>5, <2>1, <2>2
<1>6. CASE i = 6
  <2>1. content'[queue[k].image] \in
          {[background |-> content[DrawImage].background, ui |-> NoUi], Garbage}
    BY <1>1, <1>6, ExecuteEffect
  <2> QED
    BY <1>2, <1>3, <1>6, <2>1
<1>7. CASE i = 7
  <2>1. content'[queue[k].image] \in
          {[background |-> content[queue[k].image].background,
            ui |-> uiBuffer[queue[k].buffer]], Garbage}
    BY <1>1, <1>7, ExecuteEffect
  <2> QED
    BY <1>2, <1>3, <1>7, <2>1
<1> QED
  BY <1>4, <1>5, <1>6, <1>7

(* A frame draws the interface that is in its buffer.                      *)
LEMMA CommandKeepsInterfaces ==
  ASSUME OrderInv, VertexInv,
         NEW k \in DOMAIN queue, NEW i \in 2 .. 8, i \in Places, Execute(k, i)
  PROVE  VertexInv'
<1>1. TypeOK
  BY DEF OrderInv
<1>2. /\ DOMAIN queue' = DOMAIN queue /\ Len(queue') = Len(queue)
      /\ UNCHANGED <<asked, uiNext, uiBuffer>>
      /\ \A m \in DOMAIN queue : /\ queue'[m].image = queue[m].image
                                 /\ queue'[m].pushed = queue[m].pushed
                                 /\ queue'[m].buffer = queue[m].buffer
                                 /\ m # k => queue'[m].done = queue[m].done
      /\ queue'[k].done = queue[k].done \cup {i} /\ Shown' = Shown
  BY CommandStep
<1>3. /\ 9 \notin queue[k].done /\ i \notin queue[k].done
      /\ \A m \in DOMAIN queue : m # k /\ 9 \notin queue[m].done => queue[m].image # queue[k].image
      /\ queue[k].image \notin Shown
  BY Executing DEF InHand
<1>4. /\ \A j \in Images : j # queue[k].image => content'[j] = content[j]
      /\ i = 7 => content'[queue[k].image].ui \in {uiBuffer[queue[k].buffer], Undefined}
      /\ i # 7 => content'[queue[k].image].ui \in {content[queue[k].image].ui, NoUi, Undefined}
  BY InterfaceEffect
<1>5. \A m \in DOMAIN queue : queue[m].image \in Images
  BY <1>1, FrameTypes
<1>6. /\ Len(queue) <= FRAME_OVERLAP
      /\ \A m \in DOMAIN queue :
           /\ (queue[m].buffer + (Len(queue) + 1 - m)) % ImageCount = uiNext
           /\ 7 \notin queue[m].done => uiBuffer[queue[m].buffer] = queue[m].pushed
           /\ 9 \notin queue[m].done /\ 7 \in queue[m].done =>
                content[queue[m].image].ui \in {queue[m].pushed, Undefined, NoUi}
  BY DEF VertexInv, InHand
<1>7. ASSUME NEW m \in DOMAIN queue
      PROVE  /\ 7 \notin queue'[m].done => uiBuffer[queue[m].buffer] = queue[m].pushed
             /\ 9 \notin queue'[m].done /\ 7 \in queue'[m].done =>
                  content'[queue[m].image].ui \in {queue[m].pushed, Undefined, NoUi}
  <2>1. CASE m # k
    BY <1>2, <1>3, <1>4, <1>5, <1>6, <2>1
  <2>2. CASE m = k /\ i = 7
    BY <1>2, <1>3, <1>4, <1>6, <2>2
  <2>3. CASE m = k /\ i # 7
    BY <1>2, <1>3, <1>4, <1>6, <2>3
  <2> QED
    BY <2>1, <2>2, <2>3
<1>8. UiIsOwn'
  <2>1. \A j \in Shown : content'[j] = content[j]
    BY <1>1, <1>3, <1>4 DEF Shown, TypeOK
  <2> QED
    BY <1>2, <2>1 DEF VertexInv, UiIsOwn
<1>9. ASSUME NEW m \in DOMAIN queue
      PROVE  (queue'[m].buffer + (Len(queue') + 1 - m)) % ImageCount = uiNext'
  BY <1>2, <1>6
<1> QED
  BY <1>2, <1>6, <1>7, <1>8, <1>9 DEF VertexInv, InHand

(* The buffer a new frame writes is none that a frame in flight has yet to *)
(* draw from.                                                              *)
LEMMA DrawKeepsInterfaces ==
  ASSUME FRAME_OVERLAP <= ImageCount, OrderInv, VertexInv, BuildUiAndDraw
  PROVE  VertexInv'
<1>1. TypeOK
  BY DEF OrderInv
<1>2. PICK f \in Frames :
        /\ Len(queue) < FRAME_OVERLAP /\ Len(queue') = Len(queue) + 1
        /\ DOMAIN queue' = DOMAIN queue \cup {Len(queue) + 1}
        /\ Len(queue) + 1 \notin DOMAIN queue /\ queue'[Len(queue) + 1] = f
        /\ \A m \in DOMAIN queue : /\ queue'[m] = queue[m]
                                   /\ 9 \notin queue[m].done => queue[m].image # f.image
        /\ f.image \in Images /\ f.image \notin Shown /\ f.done = {} /\ f.buffer = uiNext
        /\ asked' = [asked EXCEPT ![f.image] = f.pushed]
        /\ uiBuffer' = [uiBuffer EXCEPT ![uiNext] = f.pushed]
        /\ uiNext \in 0 .. ImageCount - 1 /\ uiNext' = (uiNext + 1) % ImageCount
        /\ Shown' = Shown /\ content' = content
  BY DrawStep
<1>3. /\ queue \in Seq(Frames) /\ Len(queue) \in Nat /\ DOMAIN queue = 1 .. Len(queue)
      /\ \A m \in DOMAIN queue : /\ queue[m].buffer \in 0 .. ImageCount - 1
                                 /\ queue[m].image \in Images
  <2>1. queue \in Seq(Frames)
    BY <1>1, FrameTypes
  <2>2. Len(queue) \in Nat /\ DOMAIN queue = 1 .. Len(queue)
    BY <2>1
  <2> QED
    BY <1>1, <2>1, <2>2, FrameTypes
<1>4. /\ \A m \in DOMAIN queue :
           /\ (queue[m].buffer + (Len(queue) + 1 - m)) % ImageCount = uiNext
           /\ 7 \notin queue[m].done => uiBuffer[queue[m].buffer] = queue[m].pushed
           /\ 9 \notin queue[m].done /\ 7 \in queue[m].done =>
                content[queue[m].image].ui \in {queue[m].pushed, Undefined, NoUi}
  BY DEF VertexInv, InHand
<1>5. ASSUME NEW m \in DOMAIN queue
      PROVE  /\ queue[m].buffer # uiNext
             /\ (queue[m].buffer + (Len(queue) + 1 + 1 - m)) % ImageCount = (uiNext + 1) % ImageCount
  <2>1. PICK d \in Nat : d = Len(queue) + 1 - m /\ 1 <= d /\ d <= Len(queue)
    <3>1. m \in 1 .. Len(queue) /\ Len(queue) \in Nat
      BY <1>3
    <3> QED
      BY <3>1
  <2>2. d \in 1 .. ImageCount - 1
    <3>1. Len(queue) < ImageCount
      BY <1>2, <1>3, FrameOverlapAssumption, ImageCountAssumption
    <3> QED
      BY <1>3, <2>1, <3>1, ImageCountAssumption
  <2>3. (queue[m].buffer + d) % ImageCount = uiNext
    BY <1>4, <2>1
  <2>4. Len(queue) + 1 + 1 - m = d + 1
    <3>1. m \in Nat /\ Len(queue) \in Nat
      BY <1>3
    <3> QED
      BY <2>1, <3>1
  <2>5. /\ queue[m].buffer # uiNext
        /\ (queue[m].buffer + (d + 1)) % ImageCount = (uiNext + 1) % ImageCount
    BY <1>3, <2>2, <2>3, ImageCountAssumption, LessThanATurn
  <2> QED
    BY <2>4, <2>5
<1>6. /\ uiBuffer'[uiNext] = f.pushed
      /\ \A m \in DOMAIN queue : uiBuffer'[queue[m].buffer] = uiBuffer[queue[m].buffer]
      /\ asked'[f.image] = f.pushed /\ \A j \in Images : j # f.image => asked'[j] = asked[j]
  <2>1. uiBuffer \in [0 .. ImageCount - 1 -> Looks] /\ asked \in [Images -> Looks]
    BY <1>1 DEF TypeOK
  <2> QED
    BY <1>2, <1>3, <1>5, <2>1
<1>7. PICK n : n = Len(queue) + 1
  OBVIOUS
<1>8. ASSUME NEW m \in DOMAIN queue'
      PROVE  /\ (queue'[m].buffer + (Len(queue') + 1 - m)) % ImageCount = uiNext'
             /\ 7 \notin queue'[m].done => uiBuffer'[queue'[m].buffer] = queue'[m].pushed
             /\ 9 \notin queue'[m].done /\ 7 \in queue'[m].done =>
                  content'[queue'[m].image].ui \in {queue'[m].pushed, Undefined, NoUi}
  <2>1. CASE m \in DOMAIN queue
    <3>1. queue'[m] = queue[m]
      BY <1>2, <2>1
    <3>2. (queue[m].buffer + (Len(queue') + 1 - m)) % ImageCount = uiNext'
      BY <1>2, <1>5, <2>1
    <3> QED
      BY <1>2, <1>4, <1>6, <2>1, <3>1, <3>2
  <2>2. CASE m \notin DOMAIN queue
    <3>1. m = Len(queue) + 1 /\ queue'[m] = f
      BY <1>2, <2>2
    <3>2. Len(queue') + 1 - m = 1
      BY <1>2, <1>3, <3>1
    <3> QED
      BY <1>2, <1>6, <3>1, <3>2
  <2> QED
    BY <2>1, <2>2
<1>9. UiIsOwn'
  <2>1. Shown \subseteq Images
    BY <1>1 DEF Shown, TypeOK
  <2> QED
    BY <1>2, <1>6, <2>1 DEF VertexInv, UiIsOwn
<1>10. Len(queue') <= FRAME_OVERLAP
  BY <1>2, <1>3, FrameOverlapAssumption
<1> QED
  BY <1>8, <1>9, <1>10 DEF VertexInv, InHand

(* The frames' buffers keep their turn, in every step.                     *)
LEMMA NextKeepsInterfaces ==
  ASSUME FRAME_OVERLAP <= ImageCount
  PROVE  OrderInv /\ BackgroundInv /\ VertexInv /\ [Next]_vars => VertexInv'
<1> SUFFICES ASSUME OrderInv, BackgroundInv, VertexInv, [Next]_vars PROVE VertexInv'
  OBVIOUS
<1>1. TypeOK
  BY DEF OrderInv
<1>2. CASE BuildUiAndDraw
  BY <1>2, DrawKeepsInterfaces
<1>3. CASE Complete
  <2>1. /\ UNCHANGED <<asked, content, uiNext, uiBuffer, flipQueue, displayed>>
        /\ queue \in Seq(Frames) /\ Len(queue) \in Nat \ {0}
        /\ Len(queue') = Len(queue) - 1
        /\ \A k \in DOMAIN queue' :
             k \in Nat \ {0} /\ k + 1 \in DOMAIN queue /\ queue'[k] = queue[k + 1]
    BY <1>1, <1>3, CompletedOne, FrameTypes
  <2>2. Shown' = Shown
    BY <2>1 DEF Shown
  <2>3. Len(queue') <= FRAME_OVERLAP
    BY <2>1, FrameOverlapAssumption DEF VertexInv
  <2>4. ASSUME NEW k \in DOMAIN queue'
        PROVE  (queue'[k].buffer + (Len(queue') + 1 - k)) % ImageCount = uiNext'
    <3>1. Len(queue') + 1 - k = Len(queue) + 1 - (k + 1)
      BY <2>1
    <3> QED
      BY <2>1, <3>1 DEF VertexInv
  <2>5. UiIsOwn'
    BY <2>1, <2>2 DEF VertexInv, UiIsOwn
  <2> QED
    BY <2>1, <2>3, <2>4, <2>5 DEF VertexInv, InHand
<1>4. CASE VBlank
  <2>1. Shown' \subseteq Shown /\ UNCHANGED <<queue, asked, content, uiNext, uiBuffer>>
    BY <1>1, <1>4, VBlankEffect
  <2> QED
    BY <2>1 DEF VertexInv, UiIsOwn, InHand
<1>5. ASSUME NEW k \in DOMAIN queue, NEW i \in Places, Execute(k, i), i \in 2 .. 8
      PROVE  VertexInv'
  BY <1>5, CommandKeepsInterfaces
<1>6. ASSUME NEW k \in DOMAIN queue, NEW i \in Places, Execute(k, i), i \notin 2 .. 8
      PROVE  VertexInv'
  <2>1. /\ DOMAIN queue' = DOMAIN queue /\ Len(queue') = Len(queue)
        /\ UNCHANGED <<asked, content, uiNext, uiBuffer>>
        /\ \A m \in DOMAIN queue : /\ queue'[m].image = queue[m].image
                                   /\ queue'[m].pushed = queue[m].pushed
                                   /\ queue'[m].buffer = queue[m].buffer
                                   /\ m # k => queue'[m].done = queue[m].done
        /\ queue'[k].done = queue[k].done \cup {9}
        /\ Shown' = Shown \cup {queue[k].image}
        /\ 9 \notin queue[k].done /\ \A j \in 2 .. 8 : j \in queue[k].done
    BY <1>6, SignalStep DEF InHand
  <2>2. content[queue[k].image].ui \in {asked[queue[k].image], Undefined, NoUi}
    BY <2>1 DEF VertexInv, BackgroundInv, InHand
  <2>3. UiIsOwn'
    BY <2>1, <2>2 DEF VertexInv, UiIsOwn
  <2>4. \A m \in DOMAIN queue : /\ (7 \in queue'[m].done) = (7 \in queue[m].done)
                                /\ 9 \notin queue'[m].done => 9 \notin queue[m].done
    BY <2>1
  <2>5. ASSUME NEW m \in DOMAIN queue
        PROVE  (queue'[m].buffer + (Len(queue') + 1 - m)) % ImageCount = uiNext'
    BY <2>1 DEF VertexInv
  <2> QED
    BY <2>1, <2>3, <2>4, <2>5 DEF VertexInv, InHand
<1>7. CASE SliderOutOfRange \/ ScanoutEnds \/ UNCHANGED vars
  <2>1. UNCHANGED <<queue, asked, content, uiNext, uiBuffer, flipQueue, displayed>>
    BY <1>7 DEF SliderOutOfRange, ScanoutEnds, vars, uiVars, imageVars, presentVars, ghostVars
  <2>2. Shown' = Shown
    BY <2>1 DEF Shown
  <2> QED
    BY <2>1, <2>2 DEF VertexInv, UiIsOwn, InHand
<1> QED
  BY <1>2, <1>3, <1>4, <1>5, <1>6, <1>7, StepCases

(* With as many vertex buffers as frames in flight, what is shown never    *)
(* has another frame's interface: draw() does not overwrite vertices that  *)
(* the GPU has yet to read.  The code's numbers are 3 and 2.               *)
THEOREM InterfacesAreOwn ==
  ASSUME FRAME_OVERLAP <= ImageCount
  PROVE  Spec => []UiIsOwn
<1>1. Init => VertexInv /\ BackgroundInv
  BY NothingAtInit, FrameOverlapAssumption
     DEF VertexInv, UiIsOwn, BackgroundInv, BackgroundIsOwn
<1>2. VertexInv => UiIsOwn
  BY DEF VertexInv
<1>3. OrderInv /\ BackgroundInv /\ [Next]_vars => BackgroundInv'
  BY NextKeepsBackgrounds
<1>4. OrderInv /\ BackgroundInv /\ VertexInv /\ [Next]_vars => VertexInv'
  BY NextKeepsInterfaces
<1> QED
  BY <1>1, <1>2, <1>3, <1>4, OrderInvariance, PTL DEF Spec

-------------------------------------------------------------------------------
(* FrameCommands implements PictureShow.                                   *)

(* Frames signal in the order of the queue.                                *)
SignalsFirst(n) ==
  n \in 0 .. Len(queue) /\ \A k \in DOMAIN queue : 9 \in queue[k].done <=> k <= n

(* One image at most is displayed, and the screen reads it.                *)
OneDisplayed == displayed \subseteq scanout /\ \A i, j \in displayed : i = j

ScreenInv == OneDisplayed /\ \E n \in 0 .. Len(queue) : SignalsFirst(n)

(* A signal waits for those of the frames before.                          *)
LEMMA SignalWaits ==
  ASSUME TypeOK, NEW k \in DOMAIN queue, Ready(k, 9)
  PROVE  \A m \in DOMAIN queue : m < k => 9 \in queue[m].done
<1>1. <<9, 9>> \in Ordered
  BY OrderedPlaces
<1>2. \A m \in 1 .. k - 1 : Executed(queue[m], 9)
  BY <1>1 DEF Ready
<1>3. \A m \in 1 .. k - 1 : 9 \in queue[m].done
  BY <1>2, CommandPlaces DEF Executed
<1>4. \A m \in DOMAIN queue : m < k => m \in 1 .. k - 1
  BY FrameTypes
<1> QED
  BY <1>3, <1>4

(* The next to signal is the oldest frame that has not.                    *)
LEMMA SignalsNext ==
  ASSUME OrderInv, NEW n, SignalsFirst(n), NEW k \in DOMAIN queue, NEW i \in Places,
         Execute(k, i), i \notin 2 .. 8
  PROVE  /\ k = n + 1 /\ n + 1 \in DOMAIN queue /\ queue' \in Seq(Frames)
         /\ flipQueue' = Append(flipQueue, queue[k].image)
         /\ UNCHANGED <<displayed, scanout>>
<1>1. TypeOK /\ DoneInOrder
  BY DEF OrderInv
<1>2. i = 9
  BY <1>1, ExecutePlace
<1>3. /\ Ready(k, 9) /\ flipQueue' = Append(flipQueue, queue[k].image)
      /\ UNCHANGED <<displayed, scanout>> /\ queue' = [queue EXCEPT ![k].done = @ \cup {i}]
  BY <1>1, <1>2, ExecutePlace
<1>4. 9 \notin queue[k].done
  BY <1>1, <1>3, ReadyPlace
<1>5. \A m \in DOMAIN queue : m < k => m <= n
  BY <1>1, <1>3, SignalWaits DEF SignalsFirst
<1>6. ~(k <= n)
  BY <1>4 DEF SignalsFirst
<1>7. queue \in Seq(Frames) /\ DOMAIN queue = 1 .. Len(queue) /\ Len(queue) \in Nat
  <2>1. queue \in Seq(Frames)
    BY <1>1, FrameTypes
  <2> QED
    BY <2>1
<1>8. n \in Nat /\ k \in Nat
  BY <1>7 DEF SignalsFirst
<1>9. k = n + 1
  <2>1. ~(n + 1 < k)
    <3>1. SUFFICES ASSUME n + 1 < k PROVE FALSE
      OBVIOUS
    <3>2. n + 1 \in DOMAIN queue
      BY <1>7, <1>8, <3>1
    <3>3. n + 1 <= n
      BY <1>5, <3>1, <3>2
    <3> QED
      BY <1>8, <3>3
  <2> QED
    BY <1>6, <1>8, <2>1
<1> QED
  BY <1>1, <1>3, <1>9, ExecutedOne

(* There is one number of frames that have signalled.                      *)
LEMMA SignalledIs ==
  ASSUME NEW q \in Seq(Frames), NEW n \in 0 .. Len(q),
         \A k \in DOMAIN q : 9 \in q[k].done <=> k <= n
  PROVE  Signalled(q) = n
<1> DEFINE Fits(m) == \A k \in DOMAIN q : Len(Commands) \in q[k].done <=> k <= m
<1>1. Fits(n)
  BY CommandPlaces
<1>2. ASSUME NEW m \in 0 .. Len(q), Fits(m)
      PROVE  m = n
  <2>1. DOMAIN q = 1 .. Len(q) /\ Len(q) \in Nat
    OBVIOUS
  <2>2. \A k \in 1 .. Len(q) : k <= m <=> k <= n
    BY <1>1, <1>2, <2>1
  <2>3. m < n => FALSE
    BY <2>1, <2>2
  <2>4. n < m => FALSE
    BY <2>1, <2>2
  <2> QED
    BY <2>1, <2>3, <2>4
<1> HIDE DEF Fits
<1>3. (CHOOSE m \in 0 .. Len(q) : Fits(m)) = n
  BY <1>1, <1>2
<1> QED
  BY <1>3 DEF Signalled, Fits

(* The looks on their way: a of the images of f, and of those of q after   *)
(* the s-th.                                                               *)
Waiting(a, f, q, s) ==
  [ n \in 1 .. Len(f) + (Len(q) - s) |->
      a[IF n <= Len(f) THEN f[n] ELSE q[s + (n - Len(f))].image] ]

(* w is the list of these l looks, one by one.                             *)
Lists(w, a, f, q, s, l) ==
  /\ w \in Seq(Looks) /\ Len(w) = l
  /\ \A n \in 1 .. l :
       /\ n <= Len(f) => n \in DOMAIN f /\ f[n] \in Images /\ w[n] = a[f[n]]
       /\ n > Len(f) =>
            \E k \in DOMAIN q : /\ k = s + (n - Len(f)) /\ k > s
                               /\ q[k].image \in Images /\ w[n] = a[q[k].image]

(* Waiting is that list.                                                   *)
LEMMA WaitingLists ==
  ASSUME NEW a \in [Images -> Looks], NEW f \in Seq(Images), NEW q \in Seq(Frames),
         NEW s \in 0 .. Len(q), NEW l \in Nat, l = Len(f) + (Len(q) - s)
  PROVE  Lists(Waiting(a, f, q, s), a, f, q, s, l)
<1>1. /\ Len(f) \in Nat /\ Len(q) \in Nat /\ DOMAIN f = 1 .. Len(f) /\ DOMAIN q = 1 .. Len(q)
      /\ \A n \in DOMAIN f : f[n] \in Images
      /\ \A n \in DOMAIN q : q[n] \in Frames
  OBVIOUS
<1>2. \A n \in DOMAIN q : q[n].image \in Images
  BY <1>1 DEF Frames
<1>3. PICK w : w = Waiting(a, f, q, s)
  OBVIOUS
<1>4. w = [n \in 1 .. l |-> a[IF n <= Len(f) THEN f[n] ELSE q[s + (n - Len(f))].image]]
  BY <1>3 DEF Waiting
<1>5. ASSUME NEW n \in 1 .. l
      PROVE  /\ w[n] \in Looks
             /\ n <= Len(f) => n \in DOMAIN f /\ f[n] \in Images /\ w[n] = a[f[n]]
             /\ n > Len(f) =>
                  \E k \in DOMAIN q : /\ k = s + (n - Len(f)) /\ k > s
                                     /\ q[k].image \in Images /\ w[n] = a[q[k].image]
  <2>1. w[n] = a[IF n <= Len(f) THEN f[n] ELSE q[s + (n - Len(f))].image]
    BY <1>4
  <2>2. CASE n <= Len(f)
    <3>1. n \in DOMAIN f /\ f[n] \in Images /\ w[n] = a[f[n]] /\ ~(n > Len(f))
      BY <1>1, <2>1, <2>2
    <3> QED
      BY <3>1
  <2>3. CASE n > Len(f)
    <3>1. PICK k : k = s + (n - Len(f))
      OBVIOUS
    <3>2. k \in DOMAIN q /\ k > s /\ ~(n <= Len(f))
      BY <1>1, <2>3, <3>1
    <3>3. q[k].image \in Images /\ w[n] = a[q[k].image]
      BY <1>2, <2>1, <3>1, <3>2
    <3> QED
      BY <3>1, <3>2, <3>3
  <2> QED
    BY <1>1, <2>2, <2>3
<1>6. w \in Seq(Looks) /\ Len(w) = l
  <2>1. w \in [1 .. l -> Looks]
    BY <1>4, <1>5
  <2> QED
    BY <2>1
<1>7. Lists(w, a, f, q, s, l)
  BY <1>5, <1>6 DEF Lists
<1> QED
  BY <1>3, <1>7, Zenon

(* A new frame's look is the last.                                         *)
LEMMA WaitingDrawn ==
  ASSUME NEW a \in [Images -> Looks], NEW f \in Seq(Images), NEW q \in Seq(Frames),
         NEW s \in 0 .. Len(q), NEW d \in Frames, NEW look \in Looks,
         \A n \in DOMAIN f : f[n] # d.image,
         \A k \in DOMAIN q : k > s => q[k].image # d.image
  PROVE  Waiting([a EXCEPT ![d.image] = look], f, Append(q, d), s) = Append(Waiting(a, f, q, s), look)
<1>1. PICK b : b = [a EXCEPT ![d.image] = look]
  OBVIOUS
<1>2. PICK r : r = Append(q, d)
  OBVIOUS
<1>3. d.image \in Images
  BY DEF Frames
<1>4. /\ b \in [Images -> Looks] /\ b[d.image] = look
      /\ \A i \in Images : i # d.image => b[i] = a[i]
  BY <1>1, <1>3
<1>5. /\ r \in Seq(Frames) /\ Len(r) = Len(q) + 1 /\ Len(q) \in Nat /\ Len(f) \in Nat
      /\ s \in 0 .. Len(r)
      /\ r[Len(q) + 1] = d /\ \A k \in DOMAIN q : r[k] = q[k] /\ k < Len(q) + 1
  <2>1. r \in Seq(Frames) /\ Len(r) = Len(q) + 1 /\ Len(q) \in Nat
    BY <1>2
  <2> QED
    BY <1>2, <2>1, AppendedLast
<1>6. PICK w : w = Waiting(a, f, q, s)
  OBVIOUS
<1>7. PICK v : v = Waiting(b, f, r, s)
  OBVIOUS
<1>8. PICK l : l = Len(f) + (Len(q) - s)
  OBVIOUS
<1> l \in Nat
  BY <1>5, <1>8
<1>9. Lists(w, a, f, q, s, l)
  BY <1>6, <1>8, WaitingLists
<1>10. Lists(v, b, f, r, s, l + 1)
  <2>1. l + 1 \in Nat /\ l + 1 = Len(f) + (Len(r) - s)
    BY <1>5, <1>8
  <2> QED
    BY <1>4, <1>5, <1>7, <2>1, WaitingLists
<1>11. ASSUME NEW n \in 1 .. l
       PROVE  v[n] = w[n]
  <2>1. n \in 1 .. l + 1
    BY <1>8
  <2>2. CASE n <= Len(f)
    <3>1. n \in DOMAIN f /\ f[n] \in Images /\ w[n] = a[f[n]] /\ v[n] = b[f[n]]
      BY <1>9, <1>10, <2>1, <2>2 DEF Lists
    <3> QED
      BY <1>4, <3>1
  <2>3. CASE n > Len(f)
    <3>1. PICK k \in DOMAIN q : /\ k = s + (n - Len(f)) /\ k > s
                               /\ q[k].image \in Images /\ w[n] = a[q[k].image]
      BY <1>9, <2>3 DEF Lists
    <3>2. v[n] = b[r[k].image]
      BY <1>10, <2>1, <2>3, <3>1 DEF Lists
    <3> QED
      BY <1>4, <1>5, <3>1, <3>2
  <2> QED
    BY <1>5, <1>8, <2>2, <2>3
<1>12. v[l + 1] = look
  <2>1. l + 1 \in 1 .. l + 1 /\ l + 1 > Len(f) /\ s + ((l + 1) - Len(f)) = Len(q) + 1
    BY <1>5, <1>8
  <2>2. v[l + 1] = b[r[Len(q) + 1].image]
    BY <1>10, <2>1 DEF Lists
  <2> QED
    BY <1>4, <1>5, <2>2
<1>13. PICK x : x = Append(w, look)
  OBVIOUS
<1>14. /\ x \in Seq(Looks) /\ Len(x) = l + 1 /\ x[l + 1] = look
       /\ \A n \in 1 .. l : x[n] = w[n]
  <2>1. w \in Seq(Looks) /\ Len(w) = l
    BY <1>9 DEF Lists
  <2> QED
    BY <1>13, <2>1
<1>15. v = x
  <2>1. \A n \in 1 .. l + 1 : n \in 1 .. l \/ n = l + 1
    BY <1>8
  <2>2. v \in Seq(Looks) /\ Len(v) = l + 1
    BY <1>10 DEF Lists
  <2>3. \A n \in 1 .. Len(v) : v[n] = x[n]
    BY <1>11, <1>12, <1>14, <2>1, <2>2
  <2> QED
    BY <1>14, <2>2, <2>3, SeqEqual
<1> QED
  BY <1>1, <1>2, <1>6, <1>7, <1>13, <1>15, Zenon

(* Only the images count of the frames.                                    *)
LEMMA WaitingSame ==
  ASSUME NEW a, NEW f \in Seq(Images), NEW q \in Seq(Frames), NEW s \in 0 .. Len(q),
         NEW r \in Seq(Frames), Len(r) = Len(q), \A k \in DOMAIN q : r[k].image = q[k].image
  PROVE  Waiting(a, f, r, s) = Waiting(a, f, q, s)
<1>1. Len(q) \in Nat /\ Len(f) \in Nat /\ DOMAIN q = 1 .. Len(q)
  OBVIOUS
<1>2. PICK l : l = Len(f) + (Len(q) - s)
  OBVIOUS
<1>3. ASSUME NEW n \in 1 .. l
      PROVE  (IF n <= Len(f) THEN f[n] ELSE r[s + (n - Len(f))].image)
               = (IF n <= Len(f) THEN f[n] ELSE q[s + (n - Len(f))].image)
  <2>1. ~(n <= Len(f)) => s + (n - Len(f)) \in DOMAIN q
    BY <1>1, <1>2
  <2> QED
    BY <2>1
<1>4. Waiting(a, f, q, s) =
        [n \in 1 .. l |-> a[IF n <= Len(f) THEN f[n] ELSE q[s + (n - Len(f))].image]]
  BY <1>2 DEF Waiting
<1>5. Waiting(a, f, r, s) =
        [n \in 1 .. l |-> a[IF n <= Len(f) THEN f[n] ELSE r[s + (n - Len(f))].image]]
  BY <1>2 DEF Waiting
<1> QED
  BY <1>3, <1>4, <1>5

(* A frame that signals passes its image on, in its turn.                  *)
LEMMA WaitingSignalled ==
  ASSUME NEW a, NEW f \in Seq(Images), NEW q \in Seq(Frames), NEW s \in 0 .. Len(q) - 1,
         NEW r \in Seq(Frames), Len(r) = Len(q), \A k \in DOMAIN q : r[k].image = q[k].image
  PROVE  Waiting(a, Append(f, q[s + 1].image), r, s + 1) = Waiting(a, f, q, s)
<1>1. PICK x : x = q[s + 1].image
  OBVIOUS
<1>2. PICK g : g = Append(f, x)
  OBVIOUS
<1>3. Len(q) \in Nat /\ Len(f) \in Nat /\ s + 1 \in DOMAIN q /\ DOMAIN q = 1 .. Len(q)
  OBVIOUS
<1>4. x \in Images
  <2>1. q[s + 1] \in Frames
    BY <1>3
  <2> QED
    BY <1>1, <2>1 DEF Frames
<1>5. g \in Seq(Images) /\ Len(g) = Len(f) + 1 /\ g[Len(f) + 1] = x /\ \A n \in 1 .. Len(f) : g[n] = f[n]
  BY <1>2, <1>3, <1>4
<1>6. ASSUME NEW n \in 1 .. Len(g) + (Len(r) - (s + 1))
      PROVE  (IF n <= Len(g) THEN g[n] ELSE r[(s + 1) + (n - Len(g))].image)
               = (IF n <= Len(f) THEN f[n] ELSE q[s + (n - Len(f))].image)
  <2>1. CASE n <= Len(f)
    BY <1>3, <1>5, <2>1
  <2>2. CASE n = Len(f) + 1
    <3>1. n <= Len(g) /\ ~(n <= Len(f)) /\ s + (n - Len(f)) = s + 1
      BY <1>3, <1>5, <2>2
    <3> QED
      BY <1>1, <1>5, <2>2, <3>1
  <2>3. CASE n > Len(f) + 1
    <3>1. PICK k : k = s + (n - Len(f))
      OBVIOUS
    <3>2. ~(n <= Len(g)) /\ ~(n <= Len(f)) /\ (s + 1) + (n - Len(g)) = k /\ k \in DOMAIN q
      BY <1>3, <1>5, <2>3, <3>1
    <3> QED
      BY <3>1, <3>2
  <2> QED
    BY <1>3, <2>1, <2>2, <2>3
<1>7. s + 1 \in 0 .. Len(r) /\ s \in 0 .. Len(q) /\ Len(g) + (Len(r) - (s + 1)) = Len(f) + (Len(q) - s)
  BY <1>3, <1>5
<1>8. Waiting(a, g, r, s + 1) = Waiting(a, f, q, s)
  <2>1. PICK l : l = Len(f) + (Len(q) - s)
    OBVIOUS
  <2>2. Waiting(a, f, q, s) =
          [n \in 1 .. l |-> a[IF n <= Len(f) THEN f[n] ELSE q[s + (n - Len(f))].image]]
    BY <2>1 DEF Waiting
  <2>3. Waiting(a, g, r, s + 1) =
          [n \in 1 .. l |-> a[IF n <= Len(g) THEN g[n] ELSE r[(s + 1) + (n - Len(g))].image]]
    BY <1>7, <2>1 DEF Waiting
  <2>4. \A n \in 1 .. l :
          (IF n <= Len(g) THEN g[n] ELSE r[(s + 1) + (n - Len(g))].image)
            = (IF n <= Len(f) THEN f[n] ELSE q[s + (n - Len(f))].image)
    BY <1>6, <1>7, <2>1
  <2> QED
    BY <2>2, <2>3, <2>4
<1> QED
  BY <1>1, <1>2, <1>8, Zenon

(* A frame that completes has no image on the way.                         *)
LEMMA WaitingCompleted ==
  ASSUME NEW a, NEW f \in Seq(Images), NEW q \in Seq(Frames), NEW s \in 1 .. Len(q)
  PROVE  Waiting(a, f, Tail(q), s - 1) = Waiting(a, f, q, s)
<1>1. Len(q) \in Nat \ {0} /\ Len(f) \in Nat /\ q # <<>>
  OBVIOUS
<1>2. PICK r : r = Tail(q)
  OBVIOUS
<1>3. /\ r \in Seq(Frames) /\ Len(r) = Len(q) - 1
      /\ \A k \in 1 .. Len(q) - 1 : r[k] = q[k + 1]
  BY <1>1, <1>2
<1>4. ASSUME NEW n \in 1 .. Len(f) + (Len(r) - (s - 1))
      PROVE  (IF n <= Len(f) THEN f[n] ELSE r[(s - 1) + (n - Len(f))].image)
               = (IF n <= Len(f) THEN f[n] ELSE q[s + (n - Len(f))].image)
  <2>1. SUFFICES ASSUME ~(n <= Len(f))
                 PROVE  r[(s - 1) + (n - Len(f))] = q[s + (n - Len(f))]
    OBVIOUS
  <2>2. PICK k : k = (s - 1) + (n - Len(f))
    OBVIOUS
  <2>3. k \in 1 .. Len(q) - 1 /\ k + 1 = s + (n - Len(f))
    BY <1>1, <1>3, <2>1, <2>2
  <2> QED
    BY <1>3, <2>2, <2>3
<1>5. s - 1 \in 0 .. Len(r) /\ s \in 0 .. Len(q) /\ Len(f) + (Len(r) - (s - 1)) = Len(f) + (Len(q) - s)
  BY <1>1, <1>3
<1>6. Waiting(a, f, r, s - 1) = Waiting(a, f, q, s)
  BY <1>4, <1>5 DEF Waiting
<1> QED
  BY <1>2, <1>6, Zenon

(* The image that reaches the screen was the first.                        *)
LEMMA WaitingShown ==
  ASSUME NEW a \in [Images -> Looks], NEW f \in Seq(Images), f # <<>>, NEW q \in Seq(Frames),
         NEW s \in 0 .. Len(q)
  PROVE  /\ Waiting(a, f, q, s) # <<>> /\ Head(Waiting(a, f, q, s)) = a[f[1]]
         /\ Waiting(a, Tail(f), q, s) = Tail(Waiting(a, f, q, s))
<1>1. PICK g : g = Tail(f)
  OBVIOUS
<1>2. /\ Len(f) \in Nat \ {0} /\ Len(q) \in Nat /\ g \in Seq(Images) /\ Len(g) = Len(f) - 1
      /\ \A n \in 1 .. Len(f) - 1 : g[n] = f[n + 1]
  BY <1>1
<1>3. PICK l : l = Len(g) + (Len(q) - s)
  OBVIOUS
<1> l \in Nat
  BY <1>2, <1>3
<1>4. PICK w : w = Waiting(a, f, q, s)
  OBVIOUS
<1>5. PICK v : v = Waiting(a, g, q, s)
  OBVIOUS
<1>6. Lists(w, a, f, q, s, l + 1)
  <2>1. l + 1 \in Nat /\ l + 1 = Len(f) + (Len(q) - s)
    BY <1>2, <1>3
  <2> QED
    BY <1>4, <2>1, WaitingLists
<1>7. Lists(v, a, g, q, s, l)
  BY <1>2, <1>3, <1>5, WaitingLists
<1>8. w \in Seq(Looks) /\ Len(w) = l + 1 /\ v \in Seq(Looks) /\ Len(v) = l
  BY <1>6, <1>7 DEF Lists
<1>9. w # <<>> /\ Head(w) = a[f[1]]
  <2>1. 1 \in 1 .. l + 1 /\ 1 <= Len(f)
    BY <1>2
  <2>2. w[1] = a[f[1]]
    BY <1>6, <2>1 DEF Lists
  <2> QED
    BY <1>8, <2>2
<1>10. ASSUME NEW n \in 1 .. l
       PROVE  v[n] = w[n + 1]
  <2>1. n + 1 \in 1 .. l + 1
    OBVIOUS
  <2>2. CASE n <= Len(g)
    <3>1. n + 1 <= Len(f) /\ n \in 1 .. Len(f) - 1
      BY <1>2, <2>2
    <3>2. v[n] = a[g[n]]
      BY <1>7, <2>2 DEF Lists
    <3>3. w[n + 1] = a[f[n + 1]]
      BY <1>6, <2>1, <3>1 DEF Lists
    <3>4. g[n] = f[n + 1]
      BY <1>2, <3>1
    <3> QED
      BY <3>2, <3>3, <3>4
  <2>3. CASE n > Len(g)
    <3>1. n + 1 > Len(f) /\ s + ((n + 1) - Len(f)) = s + (n - Len(g))
      BY <1>2, <2>3
    <3>2. v[n] = a[q[s + (n - Len(g))].image]
      BY <1>7, <2>3 DEF Lists
    <3>3. w[n + 1] = a[q[s + ((n + 1) - Len(f))].image]
      BY <1>6, <2>1, <3>1 DEF Lists
    <3> QED
      BY <3>1, <3>2, <3>3
  <2> QED
    BY <1>2, <2>2, <2>3
<1>11. PICK x : x = Tail(w)
  OBVIOUS
<1>12. x \in Seq(Looks) /\ Len(x) = l /\ \A n \in 1 .. l : x[n] = w[n + 1]
  BY <1>8, <1>9, <1>11
<1>13. v = x
  BY <1>8, <1>10, <1>12, SeqEqual
<1> QED
  BY <1>1, <1>4, <1>5, <1>9, <1>11, <1>13, Zenon

-------------------------------------------------------------------------------
(* The screen's part of the invariant.                                     *)

(* A signal makes one more of the oldest frames, a completion one less;    *)
(* only the screen changes what is displayed, to an image it then reads.   *)
LEMMA NextKeepsScreen == OrderInv /\ ScreenInv /\ [Next]_vars => ScreenInv'
<1> SUFFICES ASSUME OrderInv, ScreenInv, [Next]_vars PROVE ScreenInv'
  OBVIOUS
<1>1. TypeOK /\ queue \in Seq(Frames) /\ Len(queue) \in Nat /\ DOMAIN queue = 1 .. Len(queue)
  <2>1. TypeOK
    BY DEF OrderInv
  <2>2. queue \in Seq(Frames)
    BY <2>1, FrameTypes
  <2> QED
    BY <2>1, <2>2
<1>2. PICK n \in 0 .. Len(queue) : SignalsFirst(n)
  BY DEF ScreenInv
<1>3. OneDisplayed
  BY DEF ScreenInv
<1>4. CASE BuildUiAndDraw
  <2>1. PICK d \in Frames :
          /\ Len(queue') = Len(queue) + 1 /\ DOMAIN queue' = DOMAIN queue \cup {Len(queue) + 1}
          /\ queue'[Len(queue) + 1] = d /\ d.done = {}
          /\ \A m \in DOMAIN queue : queue'[m] = queue[m]
    BY <1>4, DrawStep
  <2>2. n \in 0 .. Len(queue') /\ \A k \in DOMAIN queue' : 9 \in queue'[k].done <=> k <= n
    BY <1>1, <1>2, <2>1 DEF SignalsFirst
  <2>3. OneDisplayed'
    BY <1>1, <1>3, <1>4, DrawEffect DEF OneDisplayed
  <2> QED
    BY <2>2, <2>3 DEF ScreenInv, SignalsFirst
<1>5. CASE Complete
  <2>1. /\ Len(queue') = Len(queue) - 1 /\ 9 \in queue[1].done /\ 1 \in DOMAIN queue
        /\ \A k \in DOMAIN queue' : k \in Nat \ {0} /\ k + 1 \in DOMAIN queue /\ queue'[k] = queue[k + 1]
        /\ UNCHANGED <<displayed, scanout>>
    BY <1>1, <1>5, CompletedOne
  <2>2. n >= 1
    BY <1>2, <2>1 DEF SignalsFirst
  <2>3. n - 1 \in 0 .. Len(queue') /\ \A k \in DOMAIN queue' : k + 1 <= n <=> k <= n - 1
    BY <1>1, <2>1, <2>2
  <2>4. n - 1 \in 0 .. Len(queue') /\ \A k \in DOMAIN queue' : 9 \in queue'[k].done <=> k <= n - 1
    BY <1>2, <2>1, <2>3 DEF SignalsFirst
  <2> QED
    BY <1>3, <2>1, <2>4 DEF ScreenInv, SignalsFirst, OneDisplayed
<1>6. ASSUME NEW k \in DOMAIN queue, NEW i \in Places, Execute(k, i), i \in 2 .. 8
      PROVE  ScreenInv'
  <2>1. /\ DOMAIN queue' = DOMAIN queue /\ Len(queue') = Len(queue) /\ 9 # i
        /\ \A m \in DOMAIN queue : m # k => queue'[m].done = queue[m].done
        /\ queue'[k].done = queue[k].done \cup {i}
    BY <1>6, CommandStep
  <2>2. UNCHANGED <<displayed, scanout>>
    <3>1. i # 9
      BY <1>6
    <3> QED
      BY <1>1, <1>6, <3>1, ExecutePlace DEF presentVars
  <2>3. \A m \in DOMAIN queue : 9 \in queue'[m].done <=> 9 \in queue[m].done
    BY <2>1
  <2> QED
    BY <1>2, <1>3, <2>1, <2>2, <2>3 DEF ScreenInv, SignalsFirst, OneDisplayed
<1>7. ASSUME NEW k \in DOMAIN queue, NEW i \in Places, Execute(k, i), i \notin 2 .. 8
      PROVE  ScreenInv'
  <2>1. k = n + 1 /\ UNCHANGED <<displayed, scanout>>
    BY <1>1, <1>2, <1>7, SignalsNext
  <2>2. /\ DOMAIN queue' = DOMAIN queue /\ Len(queue') = Len(queue)
        /\ \A m \in DOMAIN queue : m # k => queue'[m].done = queue[m].done
        /\ queue'[k].done = queue[k].done \cup {9}
    BY <1>7, SignalStep
  <2>3. k \in 0 .. Len(queue') /\ \A m \in DOMAIN queue : m <= k <=> m <= n \/ m = k
    BY <1>1, <2>1, <2>2
  <2>4. k \in 0 .. Len(queue') /\ \A m \in DOMAIN queue' : 9 \in queue'[m].done <=> m <= k
    BY <1>2, <2>2, <2>3 DEF SignalsFirst
  <2> QED
    BY <1>3, <2>1, <2>4 DEF ScreenInv, SignalsFirst, OneDisplayed
<1>8. CASE VBlank
  <2>1. displayed' = {flipQueue[1]} /\ scanout' = scanout \cup {flipQueue[1]} /\ queue' = queue
    BY <1>1, <1>8, VBlankEffect
  <2>2. OneDisplayed'
    BY <2>1 DEF OneDisplayed
  <2> QED
    BY <1>2, <2>1, <2>2 DEF ScreenInv, SignalsFirst
<1>9. CASE SliderOutOfRange \/ ScanoutEnds \/ UNCHANGED vars
  <2>1. queue' = queue /\ displayed' = displayed /\ displayed \cap scanout \subseteq scanout'
    BY <1>9 DEF SliderOutOfRange, ScanoutEnds, vars, presentVars
  <2> QED
    BY <1>2, <1>3, <2>1 DEF ScreenInv, SignalsFirst, OneDisplayed
<1> QED
  BY <1>4, <1>5, <1>6, <1>7, <1>8, <1>9, StepCases

-------------------------------------------------------------------------------
(* The steps of the show.                                                  *)

(* What is pending.                                                        *)
LEMMA PendingIs ==
  ASSUME OrderInv, NEW n \in 0 .. Len(queue), SignalsFirst(n)
  PROVE  /\ queue \in Seq(Frames) /\ flipQueue \in Seq(Images) /\ asked \in [Images -> Looks]
         /\ Pending = Waiting(asked, flipQueue, queue, n)
<1>1. TypeOK
  BY DEF OrderInv
<1>2. queue \in Seq(Frames) /\ flipQueue \in Seq(Images) /\ asked \in [Images -> Looks]
  BY <1>1, FrameTypes DEF TypeOK
<1>3. Signalled(queue) = n
  BY <1>2, SignalledIs DEF SignalsFirst
<1>4. Pending = Waiting(asked, flipQueue, queue, Signalled(queue))
  BY DEF Pending, Waiting
<1> QED
  BY <1>2, <1>3, <1>4

(* What is on the screen stays until the next image is displayed.          *)
LEMMA OnScreenStays ==
  ASSUME OrderInv, ScreenInv, [Next]_vars, displayed' = displayed
  PROVE  OnScreen' = OnScreen
<1>1. CASE displayed = {}
  BY <1>1 DEF OnScreen
<1>2. CASE displayed # {}
  <2>1. Only(displayed) \in displayed
    BY <1>2 DEF Only
  <2>2. content'[Only(displayed)] = content[Only(displayed)]
    BY <2>1, ReadIsUntouched DEF ScreenInv, OneDisplayed
  <2> QED
    BY <1>2, <2>2 DEF OnScreen
<1> QED
  BY <1>1, <1>2

(* draw() adds the look it is asked for.                                   *)
LEMMA DrawShows ==
  ASSUME OrderInv, ScreenInv, BuildUiAndDraw
  PROVE  \E look \in Effects \X Data : Show!Draw(look)
<1>1. PICK n \in 0 .. Len(queue) : SignalsFirst(n)
  BY DEF ScreenInv
<1>2. /\ queue \in Seq(Frames) /\ flipQueue \in Seq(Images) /\ asked \in [Images -> Looks]
      /\ Pending = Waiting(asked, flipQueue, queue, n)
  BY <1>1, PendingIs
<1>3. TypeOK /\ HeldApart /\ ShownApart
  BY DEF OrderInv
<1>4. PICK d \in Frames :
        /\ d.image \in available /\ d.image \in Images /\ d.done = {}
        /\ d.pushed \in Effects \X Data /\ d.pushed \in Looks
        /\ queue' = Append(queue, d)
        /\ asked' = [asked EXCEPT ![d.image] = d.pushed]
        /\ flipQueue' = flipQueue /\ displayed' = displayed
  BY <1>3, DrawEffect
<1>5. \A m \in DOMAIN flipQueue : flipQueue[m] # d.image
  BY <1>3, <1>4 DEF ShownApart, Shown
<1>6. \A k \in DOMAIN queue : k > n => queue[k].image # d.image
  <2>1. DOMAIN queue = 1 .. Len(queue) /\ Len(queue) \in Nat
    BY <1>2
  <2>2. \A k \in DOMAIN queue : k > n => ~(k <= n)
    BY <2>1
  <2> QED
    BY <1>1, <1>3, <1>4, <2>2 DEF SignalsFirst, HeldApart, InHand
<1>7. Waiting(asked', flipQueue, queue', n) = Append(Pending, d.pushed)
  <2>1. Waiting([asked EXCEPT ![d.image] = d.pushed], flipQueue, Append(queue, d), n)
          = Append(Waiting(asked, flipQueue, queue, n), d.pushed)
    <3>1. \A a \in [Images -> Looks], f \in Seq(Images), q \in Seq(Frames), look \in Looks :
             \A s \in 0 .. Len(q) :
               (/\ \A m \in DOMAIN f : f[m] # d.image
                /\ \A k \in DOMAIN q : k > s => q[k].image # d.image)
               => Waiting([a EXCEPT ![d.image] = look], f, Append(q, d), s)
                    = Append(Waiting(a, f, q, s), look)
      BY WaitingDrawn
    <3>2. asked \in [Images -> Looks] /\ flipQueue \in Seq(Images) /\ queue \in Seq(Frames)
          /\ d.pushed \in Looks /\ n \in 0 .. Len(queue)
      BY <1>2, <1>4
    <3> QED
      BY <1>5, <1>6, <3>1, <3>2, Zenon
  <2> QED
    BY <1>2, <1>4, <2>1, Zenon
<1>8. Signalled(queue') = n
  <2>1. /\ queue' \in Seq(Frames) /\ n \in 0 .. Len(queue') /\ Len(queue) \in Nat
        /\ DOMAIN queue = 1 .. Len(queue)
        /\ DOMAIN queue' = DOMAIN queue \cup {Len(queue) + 1} /\ queue'[Len(queue) + 1] = d
        /\ \A k \in DOMAIN queue : queue'[k] = queue[k]
    <3>1. queue' \in Seq(Frames) /\ n \in 0 .. Len(queue') /\ Len(queue) \in Nat
          /\ DOMAIN queue = 1 .. Len(queue)
      BY <1>2, <1>4
    <3> QED
      BY <1>2, <1>4, <3>1, AppendedLast
  <2>2. \A k \in DOMAIN queue' : 9 \in queue'[k].done <=> k <= n
    BY <1>1, <1>4, <2>1 DEF SignalsFirst
  <2> QED
    BY <2>1, <2>2, SignalledIs
<1>9. Pending' = Append(Pending, d.pushed)
  <2>1. Pending' = Waiting(asked', flipQueue', queue', Signalled(queue'))
    BY DEF Pending, Waiting
  <2> QED
    BY <1>4, <1>7, <1>8, <2>1
<1>10. [Next]_vars
  BY DEF Next
<1>11. OnScreen' = OnScreen
  BY <1>4, <1>10, OnScreenStays
<1> QED
  BY <1>4, <1>9, <1>11 DEF Show!Draw

(* The next image that the screen displays has the oldest look pending.    *)
LEMMA VBlankShows ==
  ASSUME OrderInv, BackgroundInv, VertexInv, ScreenInv, VBlank
  PROVE  Show!Appear
<1>1. PICK n \in 0 .. Len(queue) : SignalsFirst(n)
  BY DEF ScreenInv
<1>2. /\ queue \in Seq(Frames) /\ flipQueue \in Seq(Images) /\ asked \in [Images -> Looks]
      /\ Pending = Waiting(asked, flipQueue, queue, n)
  BY <1>1, PendingIs
<1>3. TypeOK
  BY DEF OrderInv
<1>4. PICK j : j = flipQueue[1]
  OBVIOUS
<1>5. /\ flipQueue # <<>> /\ flipQueue' = Tail(flipQueue) /\ displayed' = {j}
      /\ j \in Images /\ j \in Shown /\ UNCHANGED <<queue, asked, content>>
  <2>1. flipQueue # <<>> /\ flipQueue' = Tail(flipQueue)
    BY DEF VBlank
  <2>2. /\ 1 \in DOMAIN flipQueue /\ j \in Images /\ displayed' = {j}
        /\ UNCHANGED <<queue, asked, content>>
    BY <1>3, <1>4, VBlankEffect
  <2> QED
    BY <1>4, <2>1, <2>2 DEF Shown
<1>6. /\ Pending # <<>> /\ Head(Pending) = asked[j]
      /\ Waiting(asked, Tail(flipQueue), queue, n) = Tail(Pending)
  <2>1. /\ Waiting(asked, flipQueue, queue, n) # <<>>
        /\ Head(Waiting(asked, flipQueue, queue, n)) = asked[flipQueue[1]]
        /\ Waiting(asked, Tail(flipQueue), queue, n) = Tail(Waiting(asked, flipQueue, queue, n))
    BY <1>2, <1>5, WaitingShown
  <2> QED
    BY <1>2, <1>4, <2>1, Zenon
<1>7. Pending' = Tail(Pending)
  <2>1. Pending' = Waiting(asked', flipQueue', queue', Signalled(queue'))
    BY DEF Pending, Waiting
  <2>2. Signalled(queue) = n
    BY <1>1, <1>2, SignalledIs DEF SignalsFirst
  <2>3. Signalled(queue') = n
    BY <1>5, <2>2
  <2> QED
    BY <1>5, <1>6, <2>1, <2>3, Zenon
<1>8. OnScreen' = content[j]
  <2>1. Only({j}) = j
    BY DEF Only
  <2> QED
    BY <1>5, <2>1 DEF OnScreen
<1>9. content[j] \in Show!Pictures(asked[j])
  <2>1. content[j] \in Pictures
    BY <1>3, <1>5, PictureTypes DEF AllImages
  <2>2. content[j].background \in {asked[j], Undefined} /\ content[j].ui \in {asked[j], Undefined, NoUi}
    BY <1>5 DEF BackgroundInv, BackgroundIsOwn, VertexInv, UiIsOwn
  <2> QED
    BY <2>1, <2>2 DEF Pictures, Show!Pictures
<1> QED
  BY <1>6, <1>7, <1>8, <1>9 DEF Show!Appear

(* The commands do not show, nor does the signal that presents a frame.    *)
LEMMA ExecuteHides ==
  ASSUME OrderInv, ScreenInv, NEW k \in DOMAIN queue, NEW i \in Places, Execute(k, i)
  PROVE  Pending' = Pending /\ displayed' = displayed
<1>1. PICK n \in 0 .. Len(queue) : SignalsFirst(n)
  BY DEF ScreenInv
<1>2. /\ queue \in Seq(Frames) /\ flipQueue \in Seq(Images) /\ asked \in [Images -> Looks]
      /\ Pending = Waiting(asked, flipQueue, queue, n)
  BY <1>1, PendingIs
<1>3. Pending' = Waiting(asked', flipQueue', queue', Signalled(queue'))
  BY DEF Pending, Waiting
<1>4. DOMAIN queue = 1 .. Len(queue) /\ Len(queue) \in Nat
  BY <1>2
<1>5. CASE i \in 2 .. 8
  <2>1. /\ DOMAIN queue' = DOMAIN queue /\ Len(queue') = Len(queue)
        /\ \A m \in DOMAIN queue : /\ queue'[m].image = queue[m].image
                                   /\ m # k => queue'[m].done = queue[m].done
        /\ queue'[k].done = queue[k].done \cup {i}
        /\ UNCHANGED <<asked, flipQueue, displayed>>
    BY <1>5, CommandStep
  <2>2. queue' \in Seq(Frames)
    <3>1. TypeOK
      BY DEF OrderInv
    <3>2. queue' = [queue EXCEPT ![k].done = @ \cup {i}]
      BY <3>1, ExecutePlace
    <3> QED
      BY <3>1, <3>2, ExecutedOne
  <2>3. \A m \in DOMAIN queue' : 9 \in queue'[m].done <=> m <= n
    BY <1>1, <1>5, <2>1 DEF SignalsFirst
  <2>4. Signalled(queue') = n
    BY <2>1, <2>2, <2>3, SignalledIs
  <2>5. Waiting(asked, flipQueue, queue', n) = Waiting(asked, flipQueue, queue, n)
    BY <1>2, <1>4, <2>1, <2>2, WaitingSame
  <2> QED
    BY <1>2, <1>3, <2>1, <2>4, <2>5
<1>6. CASE i \notin 2 .. 8
  <2>1. /\ k = n + 1 /\ n + 1 \in DOMAIN queue /\ queue' \in Seq(Frames)
        /\ flipQueue' = Append(flipQueue, queue[k].image) /\ displayed' = displayed
    BY <1>1, <1>6, SignalsNext
  <2>2. /\ DOMAIN queue' = DOMAIN queue /\ Len(queue') = Len(queue)
        /\ \A m \in DOMAIN queue : /\ queue'[m].image = queue[m].image
                                   /\ m # k => queue'[m].done = queue[m].done
        /\ queue'[k].done = queue[k].done \cup {9} /\ asked' = asked
    BY <1>6, SignalStep
  <2>3. \A m \in DOMAIN queue' : 9 \in queue'[m].done <=> m <= n + 1
    <3>1. \A m \in DOMAIN queue : m <= n + 1 <=> m <= n \/ m = k
      BY <1>4, <2>1
    <3> QED
      BY <1>1, <2>2, <3>1 DEF SignalsFirst
  <2>4. n \in 0 .. Len(queue) - 1 /\ n + 1 \in 0 .. Len(queue')
    BY <1>4, <2>1, <2>2
  <2>5. Signalled(queue') = n + 1
    BY <2>1, <2>3, <2>4, SignalledIs
  <2>6. Waiting(asked, Append(flipQueue, queue[n + 1].image), queue', n + 1)
          = Waiting(asked, flipQueue, queue, n)
    BY <1>2, <2>1, <2>2, <2>4, WaitingSignalled
  <2>7. flipQueue' = Append(flipQueue, queue[n + 1].image)
    BY <2>1
  <2> QED
    BY <1>2, <1>3, <2>1, <2>2, <2>5, <2>6, <2>7, Zenon
<1> QED
  BY <1>5, <1>6

(* Nor does a frame's completion show.                                     *)
LEMMA CompleteHides ==
  ASSUME OrderInv, ScreenInv, Complete
  PROVE  Pending' = Pending /\ displayed' = displayed
<1>1. PICK n \in 0 .. Len(queue) : SignalsFirst(n)
  BY DEF ScreenInv
<1>2. /\ queue \in Seq(Frames) /\ flipQueue \in Seq(Images) /\ asked \in [Images -> Looks]
      /\ Pending = Waiting(asked, flipQueue, queue, n)
  BY <1>1, PendingIs
<1>3. Pending' = Waiting(asked', flipQueue', queue', Signalled(queue'))
  BY DEF Pending, Waiting
<1>4. TypeOK
  BY DEF OrderInv
<1>5. /\ queue' \in Seq(Frames) /\ Len(queue') = Len(queue) - 1 /\ Len(queue) \in Nat \ {0}
      /\ 1 \in DOMAIN queue /\ 9 \in queue[1].done
      /\ \A k \in DOMAIN queue' :
           k \in Nat \ {0} /\ k + 1 \in DOMAIN queue /\ queue'[k] = queue[k + 1]
      /\ UNCHANGED <<asked, flipQueue, displayed>>
  BY <1>4, CompletedOne
<1>6. n >= 1
  BY <1>1, <1>5 DEF SignalsFirst
<1>7. PICK m : m = n - 1
  OBVIOUS
<1>8. m \in 0 .. Len(queue') /\ \A k \in DOMAIN queue' : k + 1 <= n <=> k <= m
  BY <1>5, <1>6, <1>7
<1>9. \A k \in DOMAIN queue' : 9 \in queue'[k].done <=> k <= m
  BY <1>1, <1>5, <1>8 DEF SignalsFirst
<1>10. Signalled(queue') = m
  BY <1>5, <1>8, <1>9, SignalledIs
<1>11. Waiting(asked, flipQueue, Tail(queue), n - 1) = Waiting(asked, flipQueue, queue, n)
  <2>1. n \in 1 .. Len(queue)
    BY <1>5, <1>6
  <2> QED
    BY <1>2, <2>1, WaitingCompleted
<1>12. queue' = Tail(queue)
  BY DEF Complete
<1> QED
  BY <1>2, <1>3, <1>5, <1>7, <1>10, <1>11, <1>12, Zenon

(* Every step is one of the show's, or does not show.                      *)
LEMMA NextShows ==
  OrderInv /\ BackgroundInv /\ VertexInv /\ ScreenInv /\ [Next]_vars => [Show!Next]_Show!vars
<1> SUFFICES ASSUME OrderInv, BackgroundInv, VertexInv, ScreenInv, [Next]_vars
             PROVE  [Show!Next]_Show!vars
  OBVIOUS
<1>1. ASSUME Pending' = Pending, displayed' = displayed
      PROVE  [Show!Next]_Show!vars
  BY <1>1, OnScreenStays DEF Show!vars
<1>2. CASE BuildUiAndDraw
  BY <1>2, DrawShows DEF Show!Next
<1>3. CASE VBlank
  BY <1>3, VBlankShows DEF Show!Next
<1>4. CASE Complete
  BY <1>1, <1>4, CompleteHides
<1>5. ASSUME NEW k \in DOMAIN queue, NEW i \in Places, Execute(k, i)
      PROVE  [Show!Next]_Show!vars
  BY <1>1, <1>5, ExecuteHides
<1>6. CASE SliderOutOfRange \/ ScanoutEnds \/ UNCHANGED vars
  <2>1. UNCHANGED <<queue, flipQueue, asked, displayed>>
    BY <1>6 DEF SliderOutOfRange, ScanoutEnds, vars, presentVars, ghostVars
  <2>2. Pending' = Pending
    BY <2>1 DEF Pending
  <2> QED
    BY <1>1, <2>1, <2>2
<1> QED
  BY <1>2, <1>3, <1>4, <1>5, <1>6, StepCases

(* With as many vertex buffers as frames in flight, the looks that draw()  *)
(* is asked for reach the screen in the order asked, each once, each as a  *)
(* picture of its own.                                                     *)
THEOREM RefinesShow ==
  ASSUME FRAME_OVERLAP <= ImageCount
  PROVE  Spec => ImplementsShow
<1>1. Init => BackgroundInv /\ VertexInv
  BY NothingAtInit, FrameOverlapAssumption
     DEF VertexInv, UiIsOwn, BackgroundInv, BackgroundIsOwn
<1>2. Init => ScreenInv
  <2> SUFFICES ASSUME Init PROVE ScreenInv
    OBVIOUS
  <2>1. displayed = {} /\ DOMAIN queue = {} /\ Len(queue) = 0
    BY NothingAtInit DEF Init
  <2> QED
    BY <2>1 DEF ScreenInv, OneDisplayed, SignalsFirst
<1>3. Init => Show!Init
  <2> SUFFICES ASSUME Init PROVE Show!Init
    OBVIOUS
  <2>1. queue = <<>> /\ flipQueue = <<>> /\ displayed = {}
    BY DEF Init
  <2>2. Signalled(<<>>) = 0
    <3>1. <<>> \in Seq(Frames) /\ 0 \in 0 .. Len(<<>>) /\ DOMAIN <<>> = {}
      OBVIOUS
    <3>2. \A k \in DOMAIN <<>> : 9 \in <<>>[k].done <=> k <= 0
      BY <3>1
    <3> QED
      BY <3>1, <3>2, SignalledIs
  <2>3. Pending = <<>>
    BY <2>1, <2>2 DEF Pending
  <2>4. OnScreen = [background |-> Undefined, ui |-> Undefined]
    BY <2>1 DEF OnScreen, Garbage
  <2> QED
    BY <2>3, <2>4 DEF Show!Init
<1>4. OrderInv /\ BackgroundInv /\ [Next]_vars => BackgroundInv'
  BY NextKeepsBackgrounds
<1>5. OrderInv /\ BackgroundInv /\ VertexInv /\ [Next]_vars => VertexInv'
  BY NextKeepsInterfaces
<1>6. OrderInv /\ ScreenInv /\ [Next]_vars => ScreenInv'
  BY NextKeepsScreen
<1>7. OrderInv /\ BackgroundInv /\ VertexInv /\ ScreenInv /\ [Next]_vars
        => [Show!Next]_Show!vars
  BY NextShows
<1> QED
  BY <1>1, <1>2, <1>3, <1>4, <1>5, <1>6, <1>7, OrderInvariance, PTL
     DEF Spec, ImplementsShow, Show!Spec
===============================================================================
