----------------------------- MODULE Compositor -----------------------------
(***************************************************************************)
(* How a frame is painted (aj-render: Renderer::render, StrokeCompositor). *)
(* Every layer has a substrate, a pair of textures that its strokes are    *)
(* deposited on in turn, reading one side and overwriting the other; the   *)
(* visible layers are then blended, bottom first, into a composite, again  *)
(* a pair of textures. Textures outlive the frame.                         *)
(*                                                                         *)
(* A texture is the sequence of what was painted on it: strokes on a       *)
(* substrate, layers with their attributes on the composite. How a stroke  *)
(* is tessellated and how a shader mixes is not followed.                  *)
(***************************************************************************)
EXTENDS Document

Sides == {0, 1}
Clear == << >>

\* A pair of textures, both sides clear, and the side to be read next.
NewPair == [sides |-> [side \in Sides |-> Clear], front |-> 0]

Face(pair) == pair.sides[pair.front]

\* Mutant of Deposit: the sides are not swapped.
DepositUnswapped(pair, item) == [pair EXCEPT !.sides[1 - pair.front] = Append(Face(pair), item)]

\* A pass reads the front side, overwrites the back, and the two swap.
Deposit(pair, item) ==
    [sides |-> [pair.sides EXCEPT ![1 - pair.front] = Append(Face(pair), item)],
     front |-> 1 - pair.front]

Cleared(pair) == [pair EXCEPT !.sides = [side \in Sides |-> Clear], !.front = 0]

\* StrokeCompositor::new, for a window of this size.
NewCompositor(size) ==
    [size |-> size, substrates |-> << >>, composite |-> NewPair]

\* All textures are thrown away when the size changed.
Resize(c, size) == IF c.size = size THEN c ELSE NewCompositor(size)

\* begin_frame: drop the substrates of layers that are gone, allocate those
\* that are missing, clear all, and the composite.
BeginFrame(c, keep) ==
    [c EXCEPT !.substrates =
                  [id \in keep |-> IF id \in DOMAIN @ THEN Cleared(@[id]) ELSE NewPair],
              !.composite = Cleared(@)]

\* A stroke whose layer has no substrate is skipped with a warning.
ApplyStroke(c, stroke, layer) ==
    IF layer \in DOMAIN c.substrates
    THEN [c EXCEPT !.substrates[layer] = Deposit(@, stroke)]
    ELSE c

\* The active stroke's layer is blended even when it is hidden.
EffectivelyVisible(scene, layer) ==
    layer.props.visible \/ scene.activeStrokeLayer = layer.id

CompositeLayer(c, scene, layer) ==
    IF EffectivelyVisible(scene, layer) /\ layer.id \in DOMAIN c.substrates
    THEN [c EXCEPT !.composite = Deposit(@, [paint |-> Face(c.substrates[layer.id]),
                                             props |-> layer.props])]
    ELSE c

\* Renderer::render of one scene, up to present.
Render(c, scene, size) ==
    LET keep    == Ids(scene.layers) \cup ({scene.activeStrokeLayer} \ {NoLayer})
        begun   == BeginFrame(Resize(c, size), keep)
        painted == FoldLeft(LAMBDA a, layer :
                               FoldLeft(LAMBDA b, stroke : ApplyStroke(b, stroke, layer.id),
                                        a, layer.strokes),
                            begun, scene.layers)
    IN  FoldLeft(LAMBDA a, layer : CompositeLayer(a, scene, layer), painted, scene.layers)

\* What present puts on the surface below the page's border.
Canvas(c) == Face(c.composite)

=============================================================================
